---- MODULE Spec2Model ----
(***************************************************************************)
(* Hampstead Renovations: the lead-intake scorer (agent-1-lead-intake) and *)
(* the quote pricing engine (agent-3-office-ops/quote-builder).            *)
(*                                                                         *)
(* Strings the code inspects character by character (postcodes) are        *)
(* sequences of one-character strings; strings it only compares or looks   *)
(* up (enum values) are TLA+ strings.                                      *)
(***************************************************************************)
EXTENDS Integers, Sequences, FiniteSets, TLC

VARIABLES
    op,          \* the operation being served, "idle" between requests
    request,     \* its input, as received
    response,    \* its result
    pricing,     \* PricingEngine: the loaded pricing matrix
    intake,      \* lead intake: the lead ids handed out so far (a history),
                 \* the background tasks queued and not yet run, the tasks
                 \* that ran (a history) and settings.hubspot_api_key
    limiter,     \* shared auth: the clock, RateLimitState._requests and the
                 \* histories of admitted calls and of requests passed on
    invoices     \* invoice generator: the counter file, and as histories the
                 \* counters get_next returned, those sent in a successful
                 \* response, the number of failed requests and whether two
                 \* calls of get_next overlapped

vars == <<op, request, response, pricing, intake, limiter, invoices>>

(***************************************************************************)
(* Bounds of the model.                                                    *)
(***************************************************************************)
\* postcode districts 1..MaxDistrict are submitted for every area
MaxDistrict == 21
\* longest base_items list of a catalog category
MaxItems == 2
\* longest volume_discounts table
MaxDiscounts == 2
\* most background tasks queued and not yet run
MaxBackground == 4
\* the clock of the rate limiter stops after MaxTime ticks
MaxTime == 2
\* most calls of InvoiceNumberGenerator.get_next that are begun
MaxInvoices == 3

(***************************************************************************)
(* str helpers                                                             *)
(***************************************************************************)
\* str.upper() on one character
UpperChar(c) ==
    CASE c = "n" -> "N"
      [] c = "w" -> "W"
      [] c = "s" -> "S"
      [] c = "e" -> "E"
      [] c = "q" -> "Q"
      [] c = "a" -> "A"
      [] OTHER -> c

\* str.upper()
Upper(s) == [i \in 1..Len(s) |-> UpperChar(s[i])]

\* " " in s
HasSpace(s) == \E i \in 1..Len(s) : s[i] = " "

\* s.replace(" ", "")
RECURSIVE RemoveSpaces(_)
RemoveSpaces(s) ==
    IF s = <<>> THEN <<>>
    ELSE IF Head(s) = " " THEN RemoveSpaces(Tail(s))
    ELSE <<Head(s)>> \o RemoveSpaces(Tail(s))

\* the whitespace str.split() and str.strip() act on: the space and, of the
\* other whitespace characters, the tab
IsWhitespace(c) == c \in {" ", "\t"}

\* s.strip()
RECURSIVE LStrip(_)
LStrip(s) == IF s # <<>> /\ IsWhitespace(Head(s)) THEN LStrip(Tail(s)) ELSE s

RECURSIVE RStrip(_)
RStrip(s) ==
    IF s # <<>> /\ IsWhitespace(s[Len(s)])
    THEN RStrip(SubSeq(s, 1, Len(s) - 1)) ELSE s

Strip(s) == RStrip(LStrip(s))

\* the characters of s up to its first whitespace
RECURSIVE UpToSpace(_)
UpToSpace(s) ==
    IF s = <<>> \/ IsWhitespace(Head(s)) THEN <<>>
    ELSE <<Head(s)>> \o UpToSpace(Tail(s))

\* s.split(): no token at all when s is empty or only whitespace
SplitIsEmpty(s) == LStrip(s) = <<>>

\* s.split()[0], for a string that has a token
SplitFirst(s) == UpToSpace(LStrip(s))

\* s[:n]
Take(s, n) == SubSeq(s, 1, IF Len(s) < n THEN Len(s) ELSE n)

\* s.startswith(p)
StartsWith(s, p) == Len(p) <= Len(s) /\ SubSeq(s, 1, Len(p)) = p

\* str.lower() on the enum values submitted
Lower(v) ==
    CASE v = "ASAP" -> "asap"
      [] v = "Kitchen" -> "kitchen"
      [] v = "NOT_SURE" -> "not_sure"
      [] OTHER -> v

\* str(n) for 0 <= n <= 99
DigitChar == <<"0", "1", "2", "3", "4", "5", "6", "7", "8", "9">>

Digits(n) ==
    IF n < 10 THEN <<DigitChar[n + 1]>>
    ELSE <<DigitChar[(n \div 10) + 1], DigitChar[(n % 10) + 1]>>

(***************************************************************************)
(* Lead intake: input validation                                           *)
(***************************************************************************)
ValidProjectTypes ==
    {"kitchen", "bathroom", "extension", "loft_conversion", "full_renovation",
     "flooring", "electrical", "plumbing", "painting", "landscaping", "other"}

ValidBudgetRanges ==
    {"under_10000", "10000-25000", "25000-50000", "50000-100000",
     "100000-200000", "200000_plus", "not_sure"}

ValidTimelines == {"asap", "1-3_months", "3-6_months", "6-12_months", "flexible"}

\* AddressDetails.postcode: Field(min_length=5, max_length=10), then the
\* validator's check of the cleaned length
PostcodeOk(v) ==
    /\ Len(v) >= 5 /\ Len(v) <= 10
    /\ LET cleaned == RemoveSpaces(Upper(v))
       IN  ~(Len(cleaned) < 5 \/ Len(cleaned) > 8)

\* whether a raw submission passes ProjectDetails' and AddressDetails' validators
LeadValid(raw) ==
    /\ Lower(raw.project_type) \in ValidProjectTypes
    /\ Lower(raw.budget_range) \in ValidBudgetRanges
    /\ Lower(raw.timeline) \in ValidTimelines
    /\ PostcodeOk(raw.postcode)

\* the LeadSubmission pydantic builds: the validators' return values
ParseLead(raw) ==
    [project_type |-> Lower(raw.project_type),
     budget_range |-> Lower(raw.budget_range),
     timeline     |-> Lower(raw.timeline),
     postcode     |-> Upper(raw.postcode)]

(***************************************************************************)
(* LeadScoringEngine                                                       *)
(***************************************************************************)
PREMIUM_POSTCODES ==
    << <<"N", "W", "3">>, <<"N", "W", "6">>, <<"N", "W", "8">>,
       <<"N", "W", "1", "1">>, <<"N", "6">>, <<"N", "2">>, <<"N", "1", "0">> >>

score_budget(budget_range) ==
    CASE budget_range = "200000_plus" -> 30
      [] budget_range = "100000-200000" -> 27
      [] budget_range = "50000-100000" -> 23
      [] budget_range = "25000-50000" -> 18
      [] budget_range = "10000-25000" -> 12
      [] budget_range = "under_10000" -> 6
      [] budget_range = "not_sure" -> 15
      [] OTHER -> 10

\* the scores of "6-12_months" and "flexible" exchanged
score_timeline_swapped(timeline) ==
    CASE timeline = "asap" -> 25
      [] timeline = "1-3_months" -> 22
      [] timeline = "3-6_months" -> 16
      [] timeline = "6-12_months" -> 14
      [] timeline = "flexible" -> 10
      [] OTHER -> 10

score_timeline(timeline) ==
    CASE timeline = "asap" -> 25
      [] timeline = "1-3_months" -> 22
      [] timeline = "3-6_months" -> 16
      [] timeline = "6-12_months" -> 10
      [] timeline = "flexible" -> 14
      [] OTHER -> 10

score_project_type(project_type) ==
    CASE project_type = "full_renovation" -> 20
      [] project_type = "extension" -> 19
      [] project_type = "loft_conversion" -> 18
      [] project_type = "kitchen" -> 16
      [] project_type = "bathroom" -> 14
      [] project_type = "flooring" -> 10
      [] project_type = "painting" -> 8
      [] project_type = "electrical" -> 12
      [] project_type = "plumbing" -> 12
      [] project_type = "landscaping" -> 10
      [] project_type = "other" -> 10
      [] OTHER -> 10

\* postcode.upper().split()[0] raises IndexError when split() is empty
LocationRaises(postcode) == HasSpace(postcode) /\ SplitIsEmpty(Upper(postcode))

LocationPrefix(postcode) ==
    IF HasSpace(postcode) THEN SplitFirst(Upper(postcode))
    ELSE Upper(Take(postcode, 3))

score_location(postcode) ==
    LET prefix == LocationPrefix(postcode)
    IN  IF \E i \in 1..Len(PREMIUM_POSTCODES) : StartsWith(prefix, PREMIUM_POSTCODES[i])
        THEN 25
        ELSE IF StartsWith(prefix, <<"N">>) \/ StartsWith(prefix, <<"N", "W">>)
        THEN 20
        ELSE IF StartsWith(prefix, <<"W">>) \/ StartsWith(prefix, <<"S", "W">>)
        THEN 18
        ELSE 12

\* the thresholds compared with > instead of >=
QualificationStrict(total_score) ==
    IF total_score > 80 THEN "hot"
    ELSE IF total_score > 50 THEN "warm"
    ELSE "cold"

Qualification(total_score) ==
    IF total_score >= 80 THEN "hot"
    ELSE IF total_score >= 50 THEN "warm"
    ELSE "cold"

Raised(kind) == [raised |-> TRUE, error |-> kind]

calculate_score(lead) ==
    IF LocationRaises(lead.postcode) THEN Raised("IndexError")
    ELSE
    LET budget_score   == score_budget(lead.budget_range)
        timeline_score == score_timeline(lead.timeline)
        location_score == score_location(lead.postcode)
        project_score  == score_project_type(lead.project_type)
        total_score    == budget_score + timeline_score + location_score + project_score
    IN  [raised         |-> FALSE,
        total_score    |-> total_score,
        budget_score   |-> budget_score,
        timeline_score |-> timeline_score,
        location_score |-> location_score,
        project_score  |-> project_score,
        qualification  |-> Qualification(total_score)]

(***************************************************************************)
(* Quote builder: Decimal arithmetic                                       *)
(*                                                                         *)
(* Decimals are integers in a stated unit: pence for money quantized to    *)
(* 0.01, thousandths of a penny ("mp") for the money generate() derives    *)
(* from the discount, tenths for quantities, hundredths for location       *)
(* factors and tenths of a percent for discount percentages.  Every        *)
(* product below is exact in its unit, as Decimal's is.                    *)
(***************************************************************************)
\* (n/d).quantize(Decimal("0.01"), rounding=ROUND_HALF_UP), in pence, for a
\* value of n/d pence: ties go away from zero
RoundHalfUp(n, d) ==
    IF n >= 0 THEN (2 * n + d) \div (2 * d)
    ELSE -((2 * (-n) + d) \div (2 * d))

\* LineItem.total, pence: quantity (tenths) * unit_price (pence), quantized
LineTotal(item) == RoundHalfUp(item.quantity * item.unit_price, 10)

\* QuoteSection.subtotal, pence
RECURSIVE SumTotals(_)
SumTotals(items) ==
    IF items = <<>> THEN 0 ELSE LineTotal(Head(items)) + SumTotals(Tail(items))

SectionSubtotal(section) == SumTotals(section.items)

(***************************************************************************)
(* Quote builder: CustomerDetails                                          *)
(***************************************************************************)
\* validate_uk_postcode: upper-cased and stripped, at least 5 characters
CustomerPostcodeOk(v) == Len(Strip(Upper(v))) >= 5

CustomerPostcode(v) == Strip(Upper(v))

\* CustomerDetails.location_area
location_area(postcode) ==
    LET pc == RemoveSpaces(Upper(postcode))
    IN  IF StartsWith(pc, <<"N", "W", "3">>) THEN "NW3"
        ELSE IF StartsWith(pc, <<"N", "W", "6">>) THEN "NW6"
        ELSE IF StartsWith(pc, <<"N", "W", "1", "1">>) THEN "NW11"
        ELSE "None"

(***************************************************************************)
(* Quote builder: PricingEngine                                            *)
(***************************************************************************)
AllTiers == {"essential", "premium", "luxury"}

\* get_location_factor, hundredths
get_location_factor(area) ==
    IF area = "None" THEN 100
    ELSE IF area \in DOMAIN pricing.location_factors
    THEN pricing.location_factors[area]
    ELSE 100

\* the lookup falling back to the kitchen catalog for an unknown project type
Category_FallBack(project_type) ==
    IF project_type \in DOMAIN pricing.categories
    THEN pricing.categories[project_type]
    ELSE pricing.categories["kitchen"]

\* self.pricing_data.get("categories", {}).get(project_type, {})
Category(project_type) ==
    IF project_type \in DOMAIN pricing.categories
    THEN pricing.categories[project_type]
    ELSE [base_items |-> <<>>, premium_upgrades |-> <<>>]

\* f"price_{tier}"
PriceKey(tier) ==
    CASE tier = "essential" -> "price_essential"
      [] tier = "premium" -> "price_premium"
      [] tier = "luxury" -> "price_luxury"
      [] OTHER -> "price_?"

\* item.get("price_from", item.get("price", 0)), pence
GenericPrice(item) ==
    IF "price_from" \in DOMAIN item THEN item.price_from
    ELSE IF "price" \in DOMAIN item THEN item.price
    ELSE 0

\* the line item priced from the generic price even when the item has a
\* price for the tier
BaseLineItem_GenericFirst(item, tier, location_factor) ==
    LET price == IF "price_from" \in DOMAIN item \/ "price" \in DOMAIN item
                 THEN GenericPrice(item)
                 ELSE IF PriceKey(tier) \in DOMAIN item THEN item[PriceKey(tier)]
                 ELSE 0
    IN  [description |-> item.name,
         quantity    |-> IF "quantity" \in DOMAIN item THEN item.quantity ELSE 10,
         unit_price  |-> RoundHalfUp(price * location_factor, 100)]

\* one iteration of get_base_items' loop: the line item of a catalog item
BaseLineItem(item, tier, location_factor) ==
    LET price == IF PriceKey(tier) \in DOMAIN item THEN item[PriceKey(tier)]
                 ELSE GenericPrice(item)
    IN  [description |-> item.name,
         quantity    |-> IF "quantity" \in DOMAIN item THEN item.quantity ELSE 10,
         unit_price  |-> RoundHalfUp(price * location_factor, 100)]

RECURSIVE BaseItemsOf(_, _, _)
BaseItemsOf(base_items, tier, location_factor) ==
    IF base_items = <<>> THEN <<>>
    ELSE LET item == Head(base_items)
             included_tiers == IF "tiers" \in DOMAIN item THEN item.tiers ELSE AllTiers
             rest == BaseItemsOf(Tail(base_items), tier, location_factor)
         IN  IF tier \notin included_tiers THEN rest
             ELSE <<BaseLineItem(item, tier, location_factor)>> \o rest

get_base_items(project_type, tier, location_factor) ==
    BaseItemsOf(Category(project_type).base_items, tier, location_factor)

\* one iteration of get_premium_upgrades' loop
UpgradeLineItem(item, location_factor) ==
    [description |-> item.name,
     quantity    |-> 10,
     unit_price  |-> RoundHalfUp(GenericPrice(item) * location_factor, 100)]

RECURSIVE UpgradesOf(_, _, _)
UpgradesOf(upgrades, tier, location_factor) ==
    IF upgrades = <<>> THEN <<>>
    ELSE LET item == Head(upgrades)
             included_tiers ==
                 IF "tiers" \in DOMAIN item THEN item.tiers ELSE {"premium", "luxury"}
             rest == UpgradesOf(Tail(upgrades), tier, location_factor)
         IN  IF tier \notin included_tiers THEN rest
             ELSE <<UpgradeLineItem(item, location_factor)>> \o rest

get_premium_upgrades(project_type, tier, location_factor) ==
    IF tier = "essential" THEN <<>>
    ELSE UpgradesOf(Category(project_type).premium_upgrades, tier, location_factor)

\* sorted(table, key=lambda x: x["threshold"]): stable, ascending
RECURSIVE InsertByThreshold(_, _)
InsertByThreshold(sorted, e) ==
    IF sorted = <<>> THEN <<e>>
    ELSE IF sorted[Len(sorted)].threshold <= e.threshold THEN Append(sorted, e)
    ELSE Append(InsertByThreshold(SubSeq(sorted, 1, Len(sorted) - 1), e),
                sorted[Len(sorted)])

RECURSIVE SortInto(_, _)
SortInto(sorted, table) ==
    IF table = <<>> THEN sorted
    ELSE SortInto(InsertByThreshold(sorted, Head(table)), Tail(table))

SortedByThreshold(table) == SortInto(<<>>, table)

\* the loop of calculate_volume_discount over `discounts`, from the running
\* discount_percentage: every entry the subtotal reaches overwrites it
RECURSIVE LastQualifying(_, _, _)
LastQualifying(discounts, subtotal, discount_percentage) ==
    IF discounts = <<>> THEN discount_percentage
    ELSE LastQualifying(Tail(discounts), subtotal,
            IF subtotal >= Head(discounts).threshold
            THEN Head(discounts).discount_percentage
            ELSE discount_percentage)

\* the comparison of the loop turned round
RECURSIVE LastQualifyingFlipped(_, _, _)
LastQualifyingFlipped(discounts, subtotal, discount_percentage) ==
    IF discounts = <<>> THEN discount_percentage
    ELSE LastQualifyingFlipped(Tail(discounts), subtotal,
            IF subtotal <= Head(discounts).threshold
            THEN Head(discounts).discount_percentage
            ELSE discount_percentage)

\* the table scanned in the order it was loaded, without sorted()
VolumeDiscountUnsorted(table, subtotal) == LastQualifying(table, subtotal, 0)

\* the scan with its comparison turned round
VolumeDiscountFlipped(table, subtotal) ==
    LastQualifyingFlipped(SortedByThreshold(table), subtotal, 0)

\* calculate_volume_discount on a given table; subtotal in pence, the result
\* in tenths of a percent
VolumeDiscount(table, subtotal) ==
    LastQualifying(SortedByThreshold(table), subtotal, 0)

calculate_volume_discount(subtotal) == VolumeDiscount(pricing.volume_discounts, subtotal)

(***************************************************************************)
(* Quote builder: QuoteService.generate                                    *)
(***************************************************************************)
RECURSIVE SumSections(_)
SumSections(sections) ==
    IF sections = <<>> THEN 0
    ELSE SectionSubtotal(Head(sections)) + SumSections(Tail(sections))

\* VAT charged on the subtotal before the volume discount
VatOf_BeforeDiscount(gross, discounted) == RoundHalfUp(gross * 1000 * 2, 10000)

\* (subtotal * Decimal("0.20")).quantize(0.01, ROUND_HALF_UP), pence; gross is
\* the subtotal before the discount (pence), discounted the one after it (mp)
VatOf(gross, discounted) == RoundHalfUp(discounted * 2, 10000)

\* the pricing part of generate(): sections, subtotal, discount, VAT, total.
\* subtotal and total are in mp (1000 mp = 1 penny), vat is in pence.
generate(req) ==
    LET location_factor == get_location_factor(location_area(req.postcode))
        base_items == get_base_items(req.project_type, req.tier, location_factor)
        upgrades ==
            IF req.tier \in {"premium", "luxury"}
            THEN get_premium_upgrades(req.project_type, req.tier, location_factor)
            ELSE <<>>
        sections ==
            (IF base_items # <<>>
             THEN <<[name |-> "Core Works", items |-> base_items]>> ELSE <<>>)
            \o
            (IF upgrades # <<>>
             THEN <<[name |-> "Premium Upgrades & Enhancements", items |-> upgrades]>>
             ELSE <<>>)
        gross == SumSections(sections)
        discount_percentage == calculate_volume_discount(gross)
        subtotal ==
            IF discount_percentage > 0
            THEN gross * 1000 - gross * discount_percentage
            ELSE gross * 1000
        vat == VatOf(gross, subtotal)
    IN  [sections            |-> sections,
         location_factor     |-> location_factor,
         gross               |-> gross,
         discount_percentage |-> discount_percentage,
         subtotal            |-> subtotal,
         vat                 |-> vat,
         total               |-> subtotal + vat * 1000]

(***************************************************************************)
(* Lead intake: what is submitted                                          *)
(***************************************************************************)
Areas == {<<"N">>, <<"N", "W">>, <<"W">>, <<"S", "W">>, <<"S", "E">>}

Inward == <<"1", "A", "A">>

\* outward code + inward code, written with and without the space
StructuredPostcodes ==
    {a \o Digits(d) \o sep \o Inward :
        a \in Areas, d \in 1..MaxDistrict, sep \in {<<>>, <<" ">>}}

\* lower case, stray spaces and tabs, too short, too long, blank
OddPostcodes ==
    {<<"n", "w", "3", " ", "1", "q", "e">>,
     <<"n", "w", "3", "1", "q", "e">>,
     <<" ", "N", "W", "3", " ", "1", "Q", "E">>,
     <<"N", "W", "3", " ", " ", "1", "Q", "E">>,
     <<"N", "6", " ", "1", "A", "A", " ", " ">>,
     <<" ", " ", " ", " ", " ">>,
     <<"\t", "\t", "\t", "\t", "\t", " ">>,
     <<"N", "W", "3", "\t", "1", "Q", "E">>,
     <<"\t", "N", "W", "3", " ", "1", "Q", "E">>,
     <<" ", " ", " ", " ", " ", " ", "N", "6">>,
     <<"N", "6">>,
     <<"N", "W", "1", "1", " ", "7", "A", "A", "A", "A">>}

RawPostcodes == StructuredPostcodes \cup OddPostcodes

FewPostcodes ==
    {<<"N", "W", "3", " ", "1", "A", "A">>, <<"S", "E", "1", " ", "1", "A", "A">>}

RawProjectTypes == ValidProjectTypes \cup {"Kitchen", "loft", "full_house"}
RawBudgetRanges == ValidBudgetRanges \cup {"NOT_SURE", "500000_plus"}
RawTimelines == ValidTimelines \cup {"ASAP", "next_year"}

RawLeads ==
    [project_type : ValidProjectTypes, budget_range : ValidBudgetRanges,
     timeline : ValidTimelines, postcode : RawPostcodes]
    \cup
    [project_type : RawProjectTypes, budget_range : RawBudgetRanges,
     timeline : RawTimelines, postcode : FewPostcodes]

\* LeadSubmission objects built without validation (model_construct, tests)
UnvalidatedLeads ==
    [project_type : RawProjectTypes, budget_range : RawBudgetRanges,
     timeline : RawTimelines, postcode : FewPostcodes]

(***************************************************************************)
(* Shared auth: RateLimitState and the key RateLimitMiddleware derives     *)
(* (src/shared/auth/__init__.py).  time.time() is a float: the clock       *)
(* counts ticks of 1/TicksPerSecond second, so that int() in               *)
(* get_reset_time has a fraction to drop.                                  *)
(***************************************************************************)
TicksPerSecond == 2

\* the limit and the window the middleware is built with (max_requests >= 1)
max_requests == 2
window_seconds == 1

\* the client addresses, and the header values a client may send ("" and
\* <<>> stand for a header that is absent or empty); X-Forwarded-For is
\* held as its comma-separated entries
ClientHosts == {"203.0.113.7"}
ApiKeyHeaders == {"", "guess-1"}
ForwardedHeaders == {<<>>, <<"198.51.100.1", "203.0.113.7">>}
RequestPaths == {"/health", "/metrics", "/api/v1/leads"}
exclude_paths == {"/health", "/metrics"}

\* hashlib.sha256(api_key.encode()).hexdigest()[:16]
Sha256Prefix(api_key) ==
    CASE api_key = "hr-live-key" -> "74bb9a4eda530d04"
      [] api_key = "guess-1" -> "ac074837ceda8c40"

\* the key a request is counted under
RateKey(req) ==
    IF req.x_api_key # ""
    THEN <<"api", Sha256Prefix(req.x_api_key)>>
    ELSE IF req.x_forwarded_for # <<>>
         THEN <<"ip", req.x_forwarded_for[1]>>
         ELSE <<"ip", req.client_host>>

DispatchRequests ==
    [path : RequestPaths, client_host : ClientHosts,
     x_api_key : ApiKeyHeaders, x_forwarded_for : ForwardedHeaders]

RateKeys == {RateKey(req) : req \in DispatchRequests}

\* [r for r in requests if r > window_start]
InWindow(requests, window, now) ==
    SelectSeq(requests, LAMBDA r : r > now - window * TicksPerSecond)

\* len(requests) > max_requests: one request too many gets through
Limited_Exceeds(requests, limit) == Len(requests) > limit

\* len(requests) >= max_requests
Limited(requests, limit) == Len(requests) >= limit

\* a rejected call that recorded its own time like an admitted one
AfterRejected_Recorded(stored, key, requests, now) ==
    [stored EXCEPT ![key] = Append(requests, now)]

\* `return True` comes before any assignment: self._requests is as it was
AfterRejected(stored, key, requests, now) == stored

\* is_rate_limited: the answer and self._requests after the call
is_rate_limited(stored, key, limit, window, now) ==
    LET requests == InWindow(stored[key], window, now)
    IN  IF Limited(requests, limit)
        THEN [limited |-> TRUE,
              requests |-> AfterRejected(stored, key, requests, now)]
        ELSE [limited |-> FALSE,
              requests |-> [stored EXCEPT ![key] = Append(requests, now)]]

Max0(n) == IF n > 0 THEN n ELSE 0

\* get_remaining
get_remaining(stored, key, limit, window, now) ==
    Max0(limit - Len(InWindow(stored[key], window, now)))

\* min(requests)
Oldest(requests) ==
    CHOOSE r \in {requests[i] : i \in 1..Len(requests)} :
        \A i \in 1..Len(requests) : r <= requests[i]

\* int(x) of a float of `ticks` ticks: the fraction is dropped
IntOfSeconds(ticks) ==
    IF ticks >= 0 THEN ticks \div TicksPerSecond
    ELSE 0 - ((0 - ticks) \div TicksPerSecond)

\* get_reset_time, in whole seconds
get_reset_time(stored, key, window, now) ==
    IF stored[key] = <<>> THEN 0
    ELSE Max0(IntOfSeconds(Oldest(stored[key]) + window * TicksPerSecond - now))

\* a limiter that has seen no request, at time 0
NoLimiter ==
    [now      |-> 0,
     requests |-> [k \in RateKeys |-> <<>>],
     admitted |-> [k \in RateKeys |-> <<>>],
     passed   |-> [c \in ClientHosts |-> <<>>]]

\* /tmp/invoice_counter.txt: missing, or opened for writing and still empty,
\* or holding a counter
NoFile == [exists |-> FALSE, holds_number |-> FALSE, counter |-> 0]
Truncated == [exists |-> TRUE, holds_number |-> FALSE, counter |-> 0]
Holding(counter) == [exists |-> TRUE, holds_number |-> TRUE, counter |-> counter]

\* no counter file yet, no invoice number returned by get_next, none sent in
\* a successful response, no request failed, no two calls of get_next
\* overlapped
NoInvoices ==
    [counter_file |-> NoFile, numbers |-> <<>>, answered |-> {},
     failures |-> 0, overlapped |-> FALSE]

\* no lead id handed out, no background task queued or run, HubSpot not
\* configured
NoIntake == [issued |-> {}, background |-> <<>>, ran |-> <<>>, hubspot_api_key |-> ""]

\* a pricing matrix without content: {}
NoPricing == [categories |-> <<>>, location_factors |-> <<>>, volume_discounts |-> <<>>]

(***************************************************************************)
(* Lead intake: operations                                                 *)
(***************************************************************************)
\* POST /api/v1/leads/score: pydantic validation, then calculate_score
ScoreLead ==
    /\ op = "idle"
    /\ \E raw \in RawLeads :
        /\ op' = "score_lead"
        /\ request' = raw
        /\ response' =
            IF ~LeadValid(raw) THEN [status |-> 422]
            ELSE LET lead == ParseLead(raw)
                     score == calculate_score(lead)
                 IN  IF score.raised THEN [status |-> 500, lead |-> lead]
                     ELSE [status |-> 200, lead |-> lead, score |-> score]
        /\ UNCHANGED <<pricing, intake, limiter, invoices>>

\* LeadScoringEngine.calculate_score called on an unvalidated submission
CalculateScore ==
    /\ op = "idle"
    /\ \E lead \in UnvalidatedLeads :
        /\ op' = "calculate_score"
        /\ request' = lead
        /\ response' = calculate_score(lead)
        /\ UNCHANGED <<pricing, intake, limiter, invoices>>

ScoreBudget ==
    /\ op = "idle"
    /\ \E v \in RawBudgetRanges :
        /\ op' = "score_budget"
        /\ request' = v
        /\ response' = score_budget(v)
        /\ UNCHANGED <<pricing, intake, limiter, invoices>>

ScoreTimeline ==
    /\ op = "idle"
    /\ \E v \in RawTimelines :
        /\ op' = "score_timeline"
        /\ request' = v
        /\ response' = score_timeline(v)
        /\ UNCHANGED <<pricing, intake, limiter, invoices>>

ScoreProjectType ==
    /\ op = "idle"
    /\ \E v \in RawProjectTypes :
        /\ op' = "score_project_type"
        /\ request' = v
        /\ response' = score_project_type(v)
        /\ UNCHANGED <<pricing, intake, limiter, invoices>>

\* the response is sent and the service waits for the next request
Return ==
    /\ op \notin {"idle", "start", "failed"}
    /\ op' = "idle"
    /\ request' = <<>>
    /\ response' = <<>>
    /\ UNCHANGED <<pricing, intake, limiter, invoices>>

InitScore ==
    /\ op = "idle"
    /\ request = <<>>
    /\ response = <<>>
    /\ pricing = NoPricing
    /\ intake = NoIntake
    /\ limiter = NoLimiter
    /\ invoices = NoInvoices

NextScore ==
    \/ ScoreLead
    \/ CalculateScore
    \/ ScoreBudget
    \/ ScoreTimeline
    \/ ScoreProjectType
    \/ Return

SpecScore == InitScore /\ [][NextScore]_vars

(***************************************************************************)
(* Lead intake: the HTTP routes, lead submission and its background tasks  *)
(***************************************************************************)
\* the routes registered on the lead-intake app, paths by segment
IntakeRoutes ==
    {[method |-> "GET",  path |-> <<"health">>],
     [method |-> "GET",  path |-> <<"ready">>],
     [method |-> "POST", path |-> <<"api", "v1", "leads">>],
     [method |-> "POST", path |-> <<"api", "v1", "leads", "score">>],
     [method |-> "GET",  path |-> <<"api", "v1", "config", "project-types">>],
     [method |-> "GET",  path |-> <<"api", "v1", "config", "budget-ranges">>],
     [method |-> "GET",  path |-> <<"api", "v1", "config", "timelines">>]}

\* routing of a request no registered route serves: 405 when the path is
\* registered for another method, 404 otherwise
Unrouted(method, path) ==
    IF \E r \in IntakeRoutes : r.path = path /\ r.method # method
    THEN [status |-> 405]
    ELSE [status |-> 404]

\* f"LEAD-{date}-{uuid4().hex[:8].upper()}"
LeadIds == {"LEAD-20261106-0A1B2C3D", "LEAD-20261106-4E5F6A7B"}

\* an id the API never hands out
NeverIssued == "nonexistent-id-12345"

\* submissions: a hot and a cold lead, one with an unknown project type and
\* one whose postcode is five tabs and a space
IntakeLeads ==
    {[project_type |-> "full_renovation", budget_range |-> "200000_plus",
      timeline |-> "asap", postcode |-> <<"N", "W", "3", " ", "1", "A", "A">>],
     [project_type |-> "painting", budget_range |-> "under_10000",
      timeline |-> "flexible", postcode |-> <<"S", "E", "1", " ", "1", "A", "A">>],
     [project_type |-> "full_house", budget_range |-> "not_sure",
      timeline |-> "asap", postcode |-> <<"N", "W", "3", " ", "1", "A", "A">>],
     [project_type |-> "kitchen", budget_range |-> "not_sure",
      timeline |-> "asap", postcode |-> <<"\t", "\t", "\t", "\t", "\t", " ">>]}

\* the paths a lead is asked for under
LeadPaths(lead_id) == {<<"leads", lead_id>>, <<"api", "v1", "leads", lead_id>>}

\* submit_lead's estimated_response_time
ResponseTime(qualification) ==
    CASE qualification = "hot" -> "within 1 hour"
      [] qualification = "warm" -> "within 4 hours"
      [] OTHER -> "within 24 hours"

\* POST /api/v1/leads: validation (422), a fresh lead id, the score, the two
\* background tasks queued, and the LeadResponse; an exception is answered 500
SubmitLead ==
    /\ op = "idle"
    /\ Len(intake.background) + 2 <= MaxBackground
    /\ \E raw \in IntakeLeads, lead_id \in LeadIds \ intake.issued :
        /\ op' = "submit_lead"
        /\ request' = raw
        /\ IF ~LeadValid(raw)
           THEN /\ response' = [status |-> 422]
                /\ UNCHANGED intake
           ELSE LET lead == ParseLead(raw)
                    score == calculate_score(lead)
                IN  IF score.raised
                    THEN /\ response' = [status |-> 500]
                         /\ UNCHANGED intake
                    ELSE /\ response' =
                              [status |-> 200, success |-> TRUE, lead_id |-> lead_id,
                               estimated_response_time |->
                                   ResponseTime(score.qualification)]
                         /\ intake' =
                              [intake EXCEPT
                                 !.issued = @ \cup {lead_id},
                                 !.background = @ \o
                                   <<[task |-> "send_to_n8n", lead_id |-> lead_id],
                                     [task |-> "send_to_hubspot", lead_id |-> lead_id]>>]
        /\ UNCHANGED <<pricing, limiter, invoices>>

\* GET of a lead by id: the app registers no route for it, and keeps no lead
GetLead ==
    /\ op = "idle"
    /\ \E lead_id \in LeadIds \cup {NeverIssued} :
        \E path \in LeadPaths(lead_id) :
            /\ op' = "get_lead"
            /\ request' = [method |-> "GET", path |-> path, lead_id |-> lead_id]
            /\ response' = Unrouted("GET", path)
            /\ UNCHANGED <<pricing, intake, limiter, invoices>>

\* what the HTTP request of a background task may come to: a status code, or
\* an exception of the client (no connection, timeout)
HttpOutcomes == {"200", "201", "500", "ConnectError"}

\* settings.hubspot_api_key: empty by default
HubspotKeys == {"", "pat-eu1-0001"}

\* send_to_n8n without its try / except
send_to_n8n_unguarded(outcome) ==
    IF outcome = "ConnectError"
    THEN [requested |-> TRUE, result |-> "raised", log |-> "none"]
    ELSE [requested |-> TRUE, result |-> "returned",
          log |-> IF outcome = "200" THEN "lead_sent_to_n8n" ELSE "n8n_webhook_failed"]

\* send_to_n8n: the webhook is posted to; 200 is logged as success, another
\* status as a warning, an exception as an error, and the task returns
send_to_n8n(outcome) ==
    [requested |-> TRUE,
     result    |-> "returned",
     log       |-> CASE outcome = "200" -> "lead_sent_to_n8n"
                     [] outcome = "ConnectError" -> "n8n_webhook_error"
                     [] OTHER -> "n8n_webhook_failed"]

\* send_to_hubspot: returns at once without an API key; otherwise the contact
\* is posted, 200 / 201 logged as created, another status as a warning, an
\* exception as an error, and the task returns
send_to_hubspot(hubspot_api_key, outcome) ==
    IF hubspot_api_key = ""
    THEN [requested |-> FALSE, result |-> "returned", log |-> "hubspot_not_configured"]
    ELSE [requested |-> TRUE,
          result    |-> "returned",
          log       |-> CASE outcome \in {"200", "201"} -> "hubspot_contact_created"
                          [] outcome = "ConnectError" -> "hubspot_error"
                          [] OTHER -> "hubspot_create_failed"]

\* the queue once the task at its head has run: a task that raises ends the
\* run of its request's tasks, and those still queued for it are dropped
AfterTask(background, done) ==
    IF done.result = "raised"
    THEN SelectSeq(Tail(background), LAMBDA t : t.lead_id # Head(background).lead_id)
    ELSE Tail(background)

\* the oldest queued background task runs, its HTTP request coming to any
\* outcome
RunBackgroundTask ==
    /\ intake.background # <<>>
    /\ \E outcome \in HttpOutcomes :
        LET head == Head(intake.background)
            done == IF head.task = "send_to_n8n" THEN send_to_n8n(outcome)
                    ELSE send_to_hubspot(intake.hubspot_api_key, outcome)
        IN  intake' =
                [intake EXCEPT
                   !.background = AfterTask(@, done),
                   !.ran = Append(@, [task |-> head.task, lead_id |-> head.lead_id,
                                      outcome |-> outcome, requested |-> done.requested,
                                      result |-> done.result, log |-> done.log])]
    /\ UNCHANGED <<op, request, response, pricing, limiter, invoices>>

InitIntake ==
    /\ op = "idle"
    /\ request = <<>>
    /\ response = <<>>
    /\ pricing = NoPricing
    /\ intake \in {[NoIntake EXCEPT !.hubspot_api_key = k] : k \in HubspotKeys}
    /\ limiter = NoLimiter
    /\ invoices = NoInvoices

NextIntake ==
    \/ SubmitLead
    \/ GetLead
    \/ RunBackgroundTask
    \/ Return

SpecIntake == InitIntake /\ [][NextIntake]_vars

(***************************************************************************)
(* Quote builder: the pricing matrices loaded and the requests made        *)
(***************************************************************************)
\* all sequences over S of length at most n
SeqUpTo(S, n) == UNION {[1..k -> S] : k \in 0..n}

\* catalog items as pricing-matrix.json may hold them: prices in pence,
\* quantities in tenths
BaseLibrary ==
    {[name |-> "Units", price_essential |-> 10000, price_premium |-> 15050,
      price_luxury |-> 20000, price_from |-> 12000],
     [name |-> "Fitting", price_from |-> 10001, price |-> 9000, quantity |-> 15],
     [name |-> "Worktop", price |-> 4999, tiers |-> {"premium", "luxury"},
      quantity |-> 10]}

UpgradeLists ==
    {<<>>,
     <<[name |-> "Underfloor heating", price_from |-> 2500, price_luxury |-> 4000,
        quantity |-> 20]>>,
     <<[name |-> "Wine cooler", price |-> 1999, tiers |-> {"luxury"}]>>}

\* location_factors, hundredths
FactorTables ==
    {<<>>, [a \in {"NW3", "NW11"} |-> IF a = "NW3" THEN 115 ELSE 105]}

\* volume_discounts entries: threshold in pence, percentage in tenths of a
\* percent (5%, 2.5%, 10%)
DiscountEntries ==
    {[threshold |-> 10000, discount_percentage |-> 50],
     [threshold |-> 20000, discount_percentage |-> 25],
     [threshold |-> 20000, discount_percentage |-> 100]}

PricingMatrices ==
    {[categories       |-> [t \in {"kitchen"} |->
                               [base_items |-> b, premium_upgrades |-> u]],
      location_factors |-> f,
      volume_discounts |-> v] :
        b \in SeqUpTo(BaseLibrary, MaxItems), u \in UpgradeLists,
        f \in FactorTables, v \in SeqUpTo(DiscountEntries, MaxDiscounts)}

QuotePostcodes ==
    {<<"n", "w", "3", " ", "1", "q", "e">>,
     <<"N", "W", "1", "1", " ", "7", "A", "A">>,
     <<"S", "E", "1", " ", "1", "A", "A">>,
     <<"N", "W", "1", " ", "1", "A", "A">>,
     <<" ", "N", "6", " ">>}

QuoteRequests ==
    [postcode : QuotePostcodes, project_type : {"kitchen", "garage"},
     tier : AllTiers, include_optional_items : BOOLEAN]

\* location factors the engine's item methods are called with, hundredths
LocationFactors == {100, 105, 115}

\* direct calls of get_base_items / get_premium_upgrades
ItemCalls ==
    [project_type : {"kitchen", "garage"}, tier : AllTiers,
     location_factor : LocationFactors]

\* subtotals calculate_volume_discount is asked about, pence
Subtotals ==
    {0, 9999, 10000, 10001, 15000, 19999, 20000, 20001, 30000}

(***************************************************************************)
(* Quote builder: operations                                               *)
(***************************************************************************)
\* a QuoteRequest is built (CustomerDetails validates and normalises the
\* postcode) and QuoteService.generate prices it
Generate ==
    /\ op = "idle"
    /\ \E raw \in QuoteRequests :
        /\ op' = "generate"
        /\ request' = raw
        /\ response' =
            IF ~CustomerPostcodeOk(raw.postcode) THEN [error |-> "ValidationError"]
            ELSE generate([raw EXCEPT !.postcode = CustomerPostcode(raw.postcode)])
        /\ UNCHANGED <<pricing, intake, limiter, invoices>>

\* PricingEngine.calculate_volume_discount
CalculateVolumeDiscount ==
    /\ op = "idle"
    /\ \E subtotal \in Subtotals :
        /\ op' = "calculate_volume_discount"
        /\ request' = subtotal
        /\ response' = calculate_volume_discount(subtotal)
        /\ UNCHANGED <<pricing, intake, limiter, invoices>>

\* PricingEngine.get_base_items
GetBaseItems ==
    /\ op = "idle"
    /\ \E call \in ItemCalls :
        /\ op' = "get_base_items"
        /\ request' = call
        /\ response' = get_base_items(call.project_type, call.tier,
                                      call.location_factor)
        /\ UNCHANGED <<pricing, intake, limiter, invoices>>

\* PricingEngine.get_premium_upgrades
GetPremiumUpgrades ==
    /\ op = "idle"
    /\ \E call \in ItemCalls :
        /\ op' = "get_premium_upgrades"
        /\ request' = call
        /\ response' = get_premium_upgrades(call.project_type, call.tier,
                                            call.location_factor)
        /\ UNCHANGED <<pricing, intake, limiter, invoices>>

\* PricingEngine.__init__: the pricing matrix is loaded once
InitQuote ==
    /\ op = "idle"
    /\ request = <<>>
    /\ response = <<>>
    /\ pricing \in PricingMatrices
    /\ intake = NoIntake
    /\ limiter = NoLimiter
    /\ invoices = NoInvoices

NextQuote ==
    \/ Generate
    \/ GetBaseItems
    \/ GetPremiumUpgrades
    \/ CalculateVolumeDiscount
    \/ Return

SpecQuote == InitQuote /\ [][NextQuote]_vars

\* a quote was priced
Quoted == op = "generate" /\ "total" \in DOMAIN response

\* a lead that passed validation and was scored by the endpoint
Scored == op = "score_lead" /\ response.status = 200

(***************************************************************************)
(* Quote builder: startup of the service and the POST /generate endpoint   *)
(***************************************************************************)
\* what settings.pricing_file may hold when the module is imported: no file,
\* text that is not JSON, JSON whose top level is not an object, an object
\* whose "categories" is a list, and the pricing matrices
PricingFiles ==
    {[kind |-> "missing"], [kind |-> "malformed"]}
    \cup {[kind |-> "json", top |-> t] : t \in {"list", "string", "null"}}
    \cup {[kind |-> "json", top |-> "mapping", categories |-> "list"]}
    \cup {[kind |-> "json", top |-> "mapping", categories |-> "mapping", data |-> m] :
            m \in PricingMatrices}

\* PricingEngine._load_pricing: open() and json.load(), both exceptions
\* logged and re-raised
load_pricing(pricing_file) ==
    CASE pricing_file.kind = "missing" -> Raised("FileNotFoundError")
      [] pricing_file.kind = "malformed" -> Raised("JSONDecodeError")
      [] OTHER -> [raised |-> FALSE, pricing_data |-> pricing_file]

\* PricingEngine.__init__: the three .get() calls on what was loaded need an
\* object with a get method; what "categories" holds is not looked at
PricingEngineInit(pricing_file) ==
    LET loaded == load_pricing(pricing_file)
    IN  IF loaded.raised THEN loaded
        ELSE IF loaded.pricing_data.top # "mapping" THEN Raised("AttributeError")
        ELSE IF loaded.pricing_data.categories = "mapping"
        THEN [raised |-> FALSE, pricing_data |-> loaded.pricing_data.data]
        ELSE [raised |-> FALSE,
              pricing_data |-> [categories |-> <<>>, location_factors |-> <<>>,
                                volume_discounts |-> <<>>,
                                invalid |-> "categories"]]

\* generate_quote_number: HR-<yyyymm>-<6 hex digits>
QuoteNumbers == {"HR-202611-0A1B2C", "HR-202611-3D4E5F"}

\* the GeneratedQuote generate() returns for what it priced
GeneratedQuote(quote_number, priced) ==
    [quote_number |-> quote_number,
     subtotal     |-> priced.subtotal,
     vat          |-> priced.vat,
     total        |-> priced.total]

\* QuoteService.generate: categories.get(...) raises on a list
ServiceGenerate(req, quote_number) ==
    IF "invalid" \in DOMAIN pricing THEN Raised("AttributeError")
    ELSE [raised |-> FALSE, result |-> GeneratedQuote(quote_number, generate(req))]

\* ProjectDetails(...): project_type and tier are any str, estimated_sqm any
\* Decimal; the model has no validator
ProjectDetailsOk(project) ==
    /\ project.project_type \in STRING
    /\ project.tier \in STRING
    /\ project.estimated_sqm \in Int

\* the attributes of the result the endpoint reads for its QuoteResponse
QuoteResponseFields == {"quote_number", "total", "subtotal", "vat", "discount"}

\* generate_quote: request validation (422), then generate() and the
\* QuoteResponse built from its result; any exception on the way is answered
\* 500.  `generated` records the GeneratedQuote the service returned.
generate_quote(raw, quote_number) ==
    IF ~(CustomerPostcodeOk(raw.postcode) /\ ProjectDetailsOk(raw))
    THEN [status |-> 422]
    ELSE LET out == ServiceGenerate(
                        [raw EXCEPT !.postcode = CustomerPostcode(raw.postcode)],
                        quote_number)
         IN  IF out.raised THEN [status |-> 500, detail |-> out.error]
             ELSE IF QuoteResponseFields \subseteq DOMAIN out.result
             THEN [status       |-> 200,
                   quote_number |-> out.result.quote_number,
                   total        |-> out.result.total,
                   generated    |-> out.result]
             ELSE [status |-> 500, detail |-> "AttributeError",
                   generated |-> out.result]

\* project types the quote builder lists as supported
SupportedProjectTypes == {"kitchen", "bathroom", "extension", "loft", "full_house"}

\* requests posted to /generate; estimated_sqm in tenths
ServiceRequests ==
    [postcode : {<<"N", "W", "1", "1", " ", "7", "A", "A">>, <<" ", "N", "6", " ">>},
     project_type : {"kitchen", "invalid_type"},
     tier : AllTiers \cup {"super_luxury"},
     estimated_sqm : {200, -50},
     include_optional_items : {TRUE}]

\* quote_service = QuoteService() at import: the engine is constructed, or
\* the import fails and nothing is served
LoadPricing ==
    /\ op = "start"
    /\ LET engine == PricingEngineInit(request)
       IN  IF engine.raised
           THEN /\ op' = "failed"
                /\ response' = engine
                /\ UNCHANGED <<request, pricing>>
           ELSE /\ op' = "idle"
                /\ request' = <<>>
                /\ response' = <<>>
                /\ pricing' = engine.pricing_data
    /\ UNCHANGED <<intake, limiter, invoices>>

\* POST /generate
GenerateQuote ==
    /\ op = "idle"
    /\ \E raw \in ServiceRequests, quote_number \in QuoteNumbers :
        /\ op' = "generate_quote"
        /\ request' = raw
        /\ response' = generate_quote(raw, quote_number)
        /\ UNCHANGED <<pricing, intake, limiter, invoices>>

InitService ==
    /\ op = "start"
    /\ request \in PricingFiles
    /\ response = <<>>
    /\ pricing = NoPricing
    /\ intake = NoIntake
    /\ limiter = NoLimiter
    /\ invoices = NoInvoices

NextService ==
    \/ LoadPricing
    \/ GenerateQuote
    \/ Return

SpecService == InitService /\ [][NextService]_vars

(***************************************************************************)
(* Concurrent calls of the scorer and the pricing engine                   *)
(*                                                                         *)
(* Each caller runs one call at a time, one loop iteration (or one scoring *)
(* axis) per step, and steps of different callers interleave freely.  op,  *)
(* request and response hold one entry per caller; a running caller's      *)
(* response is the frame of its call: the loop index i, the locals acc and *)
(* discounts.                                                              *)
(***************************************************************************)
Callers == {1, 2}

\* matrices with two base items, an upgrade and two discount entries listed
\* with the higher threshold first
ConcurrentMatrices ==
    {[categories       |-> [t \in {"kitchen"} |->
                               [base_items |-> b, premium_upgrades |-> u]],
      location_factors |-> <<>>,
      volume_discounts |-> v] :
        b \in {x \in [1..2 -> BaseLibrary] :
                  x[1].name = "Worktop" /\ x[2].name = "Units"},
        u \in UpgradeLists \ {<<>>},
        v \in {x \in [1..2 -> DiscountEntries] : x[1].threshold > x[2].threshold}}

ConcurrentLeads ==
    {[project_type |-> "kitchen", budget_range |-> "200000_plus",
      timeline |-> "asap", postcode |-> <<"N", "W", "3", " ", "1", "Q", "E">>],
     [project_type |-> "painting", budget_range |-> "under_10000",
      timeline |-> "flexible", postcode |-> <<"\t", "\t", "\t", "\t", "\t", " ">>]}

ConcurrentCalls ==
    {[fn |-> "calculate_score", lead |-> l] : l \in ConcurrentLeads}
    \cup {[fn |-> f, project_type |-> "kitchen", tier |-> t, location_factor |-> 115] :
            f \in {"get_base_items", "get_premium_upgrades"},
            t \in {"essential", "luxury"}}
    \cup {[fn |-> "calculate_volume_discount", subtotal |-> s] : s \in {10000, 20000}}

\* self.volume_discounts after list.sort(key=...) had sorted it in place
AfterSortInPlace(table) == SortedByThreshold(table)

\* self.volume_discounts after sorted(self.volume_discounts, key=...): the
\* call builds a new list and leaves the engine's list as it was
AfterSorted(table) == table

\* the frame of a call that has just been entered
Frame(call) ==
    [i         |-> 1,
     acc       |-> IF call.fn = "calculate_volume_discount" THEN 0 ELSE <<>>,
     discounts |-> IF call.fn = "calculate_volume_discount"
                   THEN SortedByThreshold(pricing.volume_discounts) ELSE <<>>]

\* what the loop of a call walks: the engine's own list (not a copy), the
\* sorted copy of the discounts, or the four scoring axes
LoopTable(call, frame) ==
    CASE call.fn = "get_base_items" -> Category(call.project_type).base_items
      [] call.fn = "get_premium_upgrades" ->
            IF call.tier = "essential" THEN <<>>
            ELSE Category(call.project_type).premium_upgrades
      [] call.fn = "calculate_volume_discount" -> frame.discounts
      [] call.fn = "calculate_score" -> <<"budget", "timeline", "location", "project">>

\* acc after one iteration over `item`
LoopBody(call, frame, item) ==
    CASE call.fn = "get_base_items" ->
            IF call.tier \in (IF "tiers" \in DOMAIN item THEN item.tiers ELSE AllTiers)
            THEN Append(frame.acc, BaseLineItem(item, call.tier, call.location_factor))
            ELSE frame.acc
      [] call.fn = "get_premium_upgrades" ->
            IF call.tier \in (IF "tiers" \in DOMAIN item THEN item.tiers
                              ELSE {"premium", "luxury"})
            THEN Append(frame.acc, UpgradeLineItem(item, call.location_factor))
            ELSE frame.acc
      [] call.fn = "calculate_volume_discount" ->
            IF call.subtotal >= item.threshold THEN item.discount_percentage
            ELSE frame.acc
      [] call.fn = "calculate_score" ->
            Append(frame.acc,
                   CASE item = "budget" -> score_budget(call.lead.budget_range)
                     [] item = "timeline" -> score_timeline(call.lead.timeline)
                     [] item = "location" -> score_location(call.lead.postcode)
                     [] item = "project" -> score_project_type(call.lead.project_type))

\* what a call returns once its loop is over
ReturnValue(call, frame) ==
    IF call.fn = "calculate_score"
    THEN LET total_score == frame.acc[1] + frame.acc[2] + frame.acc[3] + frame.acc[4]
         IN  [raised         |-> FALSE,
              total_score    |-> total_score,
              budget_score   |-> frame.acc[1],
              timeline_score |-> frame.acc[2],
              location_score |-> frame.acc[3],
              project_score  |-> frame.acc[4],
              qualification  |-> Qualification(total_score)]
    ELSE frame.acc

\* a caller enters a call
CallStart(c) ==
    /\ op[c] = "idle"
    /\ \E call \in ConcurrentCalls :
        /\ op' = [op EXCEPT ![c] = "running"]
        /\ request' = [request EXCEPT ![c] = call]
        /\ response' = [response EXCEPT ![c] = Frame(call)]
        /\ pricing' = IF call.fn = "calculate_volume_discount"
                      THEN [pricing EXCEPT !.volume_discounts = AfterSorted(@)]
                      ELSE pricing
        /\ UNCHANGED <<intake, limiter, invoices>>

\* one iteration of the caller's loop
CallStep(c) ==
    /\ op[c] = "running"
    /\ response[c].i <= Len(LoopTable(request[c], response[c]))
    /\ LET call == request[c]
           frame == response[c]
           item == LoopTable(call, frame)[frame.i]
       IN  IF call.fn = "calculate_score" /\ item = "location"
              /\ LocationRaises(call.lead.postcode)
           THEN /\ op' = [op EXCEPT ![c] = "returned"]
                /\ response' = [response EXCEPT ![c] = Raised("IndexError")]
           ELSE /\ response' = [response EXCEPT ![c] =
                        [frame EXCEPT !.i = @ + 1, !.acc = LoopBody(call, frame, item)]]
                /\ UNCHANGED op
    /\ UNCHANGED <<request, pricing, intake, limiter, invoices>>

\* the loop is over and the call returns
CallFinish(c) ==
    /\ op[c] = "running"
    /\ response[c].i > Len(LoopTable(request[c], response[c]))
    /\ op' = [op EXCEPT ![c] = "returned"]
    /\ response' = [response EXCEPT ![c] = ReturnValue(request[c], response[c])]
    /\ UNCHANGED <<request, pricing, intake, limiter, invoices>>

\* the caller takes the result and is free for its next call
CallerResume(c) ==
    /\ op[c] = "returned"
    /\ op' = [op EXCEPT ![c] = "idle"]
    /\ request' = [request EXCEPT ![c] = <<>>]
    /\ response' = [response EXCEPT ![c] = <<>>]
    /\ UNCHANGED <<pricing, intake, limiter, invoices>>

InitConcurrent ==
    /\ op = [c \in Callers |-> "idle"]
    /\ request = [c \in Callers |-> <<>>]
    /\ response = [c \in Callers |-> <<>>]
    /\ pricing \in ConcurrentMatrices
    /\ intake = NoIntake
    /\ limiter = NoLimiter
    /\ invoices = NoInvoices

NextConcurrent ==
    \E c \in Callers :
        \/ CallStart(c)
        \/ CallStep(c)
        \/ CallFinish(c)
        \/ CallerResume(c)

SpecConcurrent == InitConcurrent /\ [][NextConcurrent]_vars

(***************************************************************************)
(* Shared auth: operations of the rate limiter.  RateLimitMiddleware       *)
(* .dispatch is the only caller of is_rate_limited; one dispatch reads the *)
(* clock once.                                                             *)
(***************************************************************************)
\* time passes between two requests
Tick ==
    /\ op = "idle"
    /\ limiter.now < MaxTime
    /\ limiter' = [limiter EXCEPT !.now = @ + 1]
    /\ UNCHANGED <<op, request, response, pricing, intake, invoices>>

\* RateLimitMiddleware.dispatch
Dispatch ==
    /\ op = "idle"
    /\ \E req \in DispatchRequests :
        LET rate_key == RateKey(req)
            now == limiter.now
            call == is_rate_limited(limiter.requests, rate_key, max_requests,
                                    window_seconds, now)
            remaining == get_remaining(call.requests, rate_key, max_requests,
                                       window_seconds, now)
            reset == get_reset_time(call.requests, rate_key, window_seconds, now)
        IN  /\ op' = "dispatch"
            /\ request' = req
            /\ IF req.path \in exclude_paths
               THEN /\ response' = [status_code |-> 200, passed_on |-> TRUE,
                                    counted |-> FALSE]
                    /\ UNCHANGED limiter
               ELSE IF call.limited
               THEN /\ response' = [status_code |-> 429, passed_on |-> FALSE,
                                    counted |-> TRUE, rate_key |-> rate_key,
                                    remaining |-> remaining, retry_after |-> reset]
                    /\ limiter' = [limiter EXCEPT !.requests = call.requests]
               ELSE /\ response' = [status_code |-> 200, passed_on |-> TRUE,
                                    counted |-> TRUE, rate_key |-> rate_key,
                                    remaining |-> remaining, reset |-> reset]
                    /\ limiter' = [limiter EXCEPT
                            !.requests = call.requests,
                            !.admitted[rate_key] = Append(@, now),
                            !.passed[req.client_host] = Append(@, now)]
    /\ UNCHANGED <<pricing, intake, invoices>>

\* RateLimitState.get_remaining, called on its own
GetRemaining ==
    /\ op = "idle"
    /\ \E key \in RateKeys :
        /\ op' = "get_remaining"
        /\ request' = [key |-> key]
        /\ response' = get_remaining(limiter.requests, key, max_requests,
                                     window_seconds, limiter.now)
    /\ UNCHANGED <<pricing, intake, limiter, invoices>>

\* RateLimitState.get_reset_time, called on its own
GetResetTime ==
    /\ op = "idle"
    /\ \E key \in RateKeys :
        /\ op' = "get_reset_time"
        /\ request' = [key |-> key]
        /\ response' = get_reset_time(limiter.requests, key, window_seconds,
                                      limiter.now)
    /\ UNCHANGED <<pricing, intake, limiter, invoices>>

InitRateLimit ==
    /\ op = "idle"
    /\ request = <<>>
    /\ response = <<>>
    /\ pricing = NoPricing
    /\ intake = NoIntake
    /\ limiter = NoLimiter
    /\ invoices = NoInvoices

NextRateLimit == Tick \/ Dispatch \/ GetRemaining \/ GetResetTime \/ Return

SpecRateLimit == InitRateLimit /\ [][NextRateLimit]_vars

(***************************************************************************)
(* Invoice generator (src/agent-3-office-ops/invoice-generator).  Money is *)
(* held in hundredths of a penny, which holds quantity * unit_price *      *)
(* vat_rate / 100 exactly for prices in pence and whole quantities and     *)
(* rates; what the PDF prints is held in pence.                            *)
(***************************************************************************)
PerPenny == 100

\* LineItem.net_amount
net_amount(item) == item.quantity * item.unit_price * PerPenny

\* LineItem.vat_amount
vat_amount(item) == (net_amount(item) * item.vat_rate) \div 100

RECURSIVE SumOver(_, _)
\* sum(f(item) for item in request.line_items), f one of the two amounts
SumOver(items, which) ==
    IF items = <<>> THEN 0
    ELSE (IF which = "net" THEN net_amount(Head(items)) ELSE vat_amount(Head(items)))
         + SumOver(Tail(items), which)

\* the request as InvoicePDFGenerator.generate leaves it: the totals that are
\* 0 are assigned from the line items
AfterPdfTotals(req) ==
    LET subtotal == IF req.subtotal = 0 THEN SumOver(req.line_items, "net")
                    ELSE req.subtotal
        vat_total == IF req.vat_total = 0 THEN SumOver(req.line_items, "vat")
                     ELSE req.vat_total
    IN  [req EXCEPT !.subtotal = subtotal,
                    !.vat_total = vat_total,
                    !.total = IF req.total = 0 THEN subtotal + vat_total ELSE req.total]

\* f"{amount:,.2f}" of a Decimal rounds to the nearest penny, ties to the
\* even penny: the amount in pence that is printed, n / d being the amount
RoundHalfEven(n, d) ==
    LET q == n \div d
        r == n % d
    IN  IF 2 * r > d \/ (2 * r = d /\ q % 2 = 1) THEN q + 1 ELSE q

\* f"£{amount:,.2f}"
PrintedAmount(amount) == RoundHalfEven(amount, PerPenny)

\* _build_totals: the AMOUNT DUE row
PdfAmountDue(req) == PrintedAmount(req.total - req.amount_paid)

\* generate_invoice: amount_due of the response, from the request as
\* generate left it
TotalDue(req) ==
    LET subtotal == IF req.subtotal > 0 THEN req.subtotal
                    ELSE SumOver(req.line_items, "net")
        vat_total == IF req.vat_total > 0 THEN req.vat_total
                     ELSE SumOver(req.line_items, "vat")
        total == IF req.total > 0 THEN req.total ELSE subtotal + vat_total
    IN  total - req.amount_paid

\* line items: 33.33 at 20% (VAT 6.666), 3 x 100.00 at 20%, 2.50 at 5% (VAT
\* 0.125)
InvoiceLineItems ==
    {[quantity |-> 1, unit_price |-> 3333, vat_rate |-> 20],
     [quantity |-> 3, unit_price |-> 10000, vat_rate |-> 20],
     [quantity |-> 1, unit_price |-> 250, vat_rate |-> 5]}

\* requests with their totals left at the default 0, or supplied
InvoiceRequests ==
    {[line_items |-> l, subtotal |-> t[1], vat_total |-> t[2], total |-> t[3],
      amount_paid |-> a] :
        l \in SeqUpTo(InvoiceLineItems, 2),
        t \in {<<0, 0, 0>>, <<1000000, 200000, 1200000>>},
        a \in {0, 500000}}

\* pdf_generator.generate and s3_uploader.upload: done, or one of them raised
InvoiceOutcomes == {"uploaded", "pdf_raises", "upload_raises"}

\* the worker processes serving POST /generate
Workers == {1, 2}

\* int(f.read().strip()), 1000 on FileNotFoundError or ValueError
ReadCounter(counter_file) ==
    IF counter_file.exists /\ counter_file.holds_number
    THEN counter_file.counter ELSE 1000

\* POST /generate arrives at a worker, which enters get_next
InvoiceStart(w) ==
    /\ op[w] = "idle"
    /\ Len(invoices.numbers)
         + Cardinality({v \in Workers : op[v] \in {"get_next", "counted", "opened"}})
            < MaxInvoices
    /\ op' = [op EXCEPT ![w] = "get_next"]
    /\ response' = [response EXCEPT ![w] = <<>>]
    /\ UNCHANGED <<request, pricing, intake, limiter, invoices>>

\* get_next: the counter file is read and counter += 1
GetNextRead(w) ==
    /\ op[w] = "get_next"
    /\ op' = [op EXCEPT ![w] = "counted"]
    /\ response' = [response EXCEPT ![w] =
            [counter |-> ReadCounter(invoices.counter_file) + 1]]
    /\ invoices' = [invoices EXCEPT !.overlapped =
            @ \/ \E v \in Workers \ {w} : op[v] \in {"counted", "opened"}]
    /\ UNCHANGED <<request, pricing, intake, limiter>>

\* get_next: open(cls._counter_file, 'w') empties the file
GetNextOpen(w) ==
    /\ op[w] = "counted"
    /\ op' = [op EXCEPT ![w] = "opened"]
    /\ invoices' = [invoices EXCEPT !.counter_file = Truncated]
    /\ UNCHANGED <<request, response, pricing, intake, limiter>>

\* get_next: the counter is written, the file closed and the number returned
GetNextWrite(w) ==
    /\ op[w] = "opened"
    /\ op' = [op EXCEPT ![w] = "numbered"]
    /\ invoices' = [invoices EXCEPT !.counter_file = Holding(response[w].counter),
                                    !.numbers = Append(@, response[w].counter)]
    /\ UNCHANGED <<request, response, pricing, intake, limiter>>

\* the rest of generate_invoice: the PDF is built from the request, which is
\* first read here, and uploaded; the response is built or the exception
\* becomes a 500
GeneratePdfAndUpload(w) ==
    /\ op[w] = "numbered"
    /\ \E req \in InvoiceRequests, outcome \in InvoiceOutcomes :
        LET after == AfterPdfTotals(req)
        IN  /\ request' = [request EXCEPT ![w] = req]
            /\ IF outcome = "uploaded"
               THEN /\ response' = [response EXCEPT ![w] =
                            [status_code |-> 200,
                             invoice_number |-> response[w].counter,
                             total_due |-> TotalDue(after),
                             pdf_amount_due |-> PdfAmountDue(after)]]
                    /\ invoices' = [invoices EXCEPT
                            !.answered = @ \cup {response[w].counter}]
               ELSE /\ response' = [response EXCEPT ![w] = [status_code |-> 500]]
                    /\ invoices' = [invoices EXCEPT !.failures = @ + 1]
    /\ op' = [op EXCEPT ![w] = "returned"]
    /\ UNCHANGED <<pricing, intake, limiter>>

\* the response is sent and the worker is free for its next request
InvoiceResume(w) ==
    /\ op[w] = "returned"
    /\ op' = [op EXCEPT ![w] = "idle"]
    /\ request' = [request EXCEPT ![w] = <<>>]
    /\ response' = [response EXCEPT ![w] = <<>>]
    /\ UNCHANGED <<pricing, intake, limiter, invoices>>

InitInvoice ==
    /\ op = [w \in Workers |-> "idle"]
    /\ request = [w \in Workers |-> <<>>]
    /\ response = [w \in Workers |-> <<>>]
    /\ pricing = NoPricing
    /\ intake = NoIntake
    /\ limiter = NoLimiter
    /\ invoices = NoInvoices

NextInvoice ==
    \E w \in Workers :
        \/ InvoiceStart(w)
        \/ GetNextRead(w)
        \/ GetNextOpen(w)
        \/ GetNextWrite(w)
        \/ GeneratePdfAndUpload(w)
        \/ InvoiceResume(w)

SpecInvoice == InitInvoice /\ [][NextInvoice]_vars

(***************************************************************************)
(* Contract generator (src/agent-3-office-ops/contract-generator): the     *)
(* contract sum and the payment schedule.  Amounts are held in ten-        *)
(* thousandths of a penny, which holds value * rate / 100 * percentage /   *)
(* 100 exactly for values in pence and whole rates.                        *)
(***************************************************************************)
FinePerPenny == 10000

\* settings.DEPOSIT_PERCENTAGE, settings.RETENTION_PERCENTAGE
DEPOSIT_PERCENTAGE == 25
RETENTION_PERCENTAGE == 5

\* amount * percentage / 100; amounts are multiples of 100
PercentOf(amount, percentage) == (amount \div 100) * percentage

\* _build_financial_section: "Total Contract Sum (including VAT)"
FinancialTotal(req) ==
    LET vat == IF req.vat_amount = 0 THEN PercentOf(req.contract_value, req.vat_rate)
               ELSE req.vat_amount
    IN  IF req.total_including_vat = 0 THEN req.contract_value + vat
        ELSE req.total_including_vat

\* _build_payment_section: total
PaymentTotal(req) ==
    IF req.total_including_vat > 0 THEN req.total_including_vat
    ELSE (req.contract_value \div 10) * 12

\* the standard schedule built when the request has no milestones
DefaultMilestones(total) ==
    <<[stage |-> "Deposit on signing", percentage |-> DEPOSIT_PERCENTAGE,
       amount |-> PercentOf(total, DEPOSIT_PERCENTAGE)],
      [stage |-> "First Fix Complete", percentage |-> 25,
       amount |-> PercentOf(total, 25)],
      [stage |-> "Second Fix Complete", percentage |-> 25,
       amount |-> PercentOf(total, 25)],
      [stage |-> "Practical Completion", percentage |-> 20,
       amount |-> PercentOf(total, 20)],
      [stage |-> "Retention Release", percentage |-> RETENTION_PERCENTAGE,
       amount |-> PercentOf(total, RETENTION_PERCENTAGE)]>>

\* _build_payment_section: the milestones of the payment table
PaymentMilestones(req) ==
    IF req.payment_milestones = <<>>
    THEN DefaultMilestones(PaymentTotal(req))
    ELSE [i \in 1..Len(req.payment_milestones) |->
            LET m == req.payment_milestones[i]
            IN  IF m.amount = 0
                THEN [m EXCEPT !.amount = PercentOf(PaymentTotal(req), m.percentage)]
                ELSE m]

\* a schedule supplied with the request: one amount left to be calculated
SuppliedMilestones ==
    <<[stage |-> "Start", percentage |-> 50, amount |-> 0],
      [stage |-> "Completion", percentage |-> 50, amount |-> 6000 * FinePerPenny]>>

\* contracts of 100.00, 123.45 and 333.33 with VAT at 20%, 5% and 0%, vat
\* amount and total left at 0 or supplied
ContractRequests ==
    [contract_value : {10000 * FinePerPenny, 12345 * FinePerPenny, 33333 * FinePerPenny},
     vat_rate : {20, 5, 0},
     vat_amount : {0, 2000 * FinePerPenny},
     total_including_vat : {0, 12000 * FinePerPenny, 0 - 100 * FinePerPenny},
     payment_milestones : {<<>>, SuppliedMilestones}]

\* ContractPDFGenerator: the contract sum section and the payment section
\* are built for a request
BuildContract ==
    /\ op = "idle"
    /\ \E req \in ContractRequests :
        /\ op' = "build_contract"
        /\ request' = req
        /\ response' = [total_contract_sum |-> FinancialTotal(req),
                        milestones |-> PaymentMilestones(req)]
    /\ UNCHANGED <<pricing, intake, limiter, invoices>>

InitContract ==
    /\ op = "idle"
    /\ request = <<>>
    /\ response = <<>>
    /\ pricing = NoPricing
    /\ intake = NoIntake
    /\ limiter = NoLimiter
    /\ invoices = NoInvoices

NextContract == BuildContract \/ Return

SpecContract == InitContract /\ [][NextContract]_vars

(***************************************************************************)
(* Properties of the lead scorer                                           *)
(***************************************************************************)
\* the scenarios of the specification, as validated submissions
Scenario1 ==
    [project_type |-> "full_renovation", budget_range |-> "200000_plus",
     timeline |-> "asap", postcode |-> <<"N", "W", "3", " ", "1", "A", "A">>]

Scenario2 ==
    [project_type |-> "painting", budget_range |-> "under_10000",
     timeline |-> "flexible", postcode |-> <<"S", "E", "1", " ", "1", "A", "A">>]

\* C1: every score the engine returns is "hot" exactly when its total is at
\* least 80, "warm" exactly when the total is in 50..79 and "cold" exactly
\* when it is below 50.
C1_QualificationThresholds ==
    (op \in {"score_lead", "calculate_score"} /\ "total_score" \in DOMAIN response) =>
        LET sc == IF op = "score_lead" THEN response.score ELSE response
        IN  /\ (sc.qualification = "hot") <=> (sc.total_score >= 80)
            /\ (sc.qualification = "warm") <=>
                  (50 <= sc.total_score /\ sc.total_score < 80)
            /\ (sc.qualification = "cold") <=> (sc.total_score < 50)
            /\ sc.qualification \in {"hot", "warm", "cold"}

\* C1 witness: a validated lead whose total is exactly 80 was scored "hot"
C1_Witness ==
    /\ Scored
    /\ response.score.total_score = 80
    /\ response.score.qualification = "hot"

\* the boundary totals 49, 50 and 79 are produced as well
C1_Boundary49 == Scored /\ response.score.total_score = 49
C1_Boundary50 == Scored /\ response.score.total_score = 50
C1_Boundary79 == Scored /\ response.score.total_score = 79

\* the rule tables as the specification prints them
SpecBudgetTable ==
    [x \in ValidBudgetRanges |->
        CASE x = "200000_plus" -> 30 [] x = "100000-200000" -> 27
          [] x = "50000-100000" -> 23 [] x = "25000-50000" -> 18
          [] x = "10000-25000" -> 12 [] x = "under_10000" -> 6
          [] x = "not_sure" -> 15]

SpecTimelineTable ==
    [x \in ValidTimelines |->
        CASE x = "asap" -> 25 [] x = "1-3_months" -> 22 [] x = "3-6_months" -> 16
          [] x = "6-12_months" -> 10 [] x = "flexible" -> 14]

SpecProjectTable ==
    [x \in ValidProjectTypes |->
        CASE x = "full_renovation" -> 20 [] x = "extension" -> 19
          [] x = "loft_conversion" -> 18 [] x = "kitchen" -> 16
          [] x = "bathroom" -> 14 [] x = "electrical" -> 12
          [] x = "plumbing" -> 12 [] x = "flooring" -> 10
          [] x = "landscaping" -> 10 [] x = "other" -> 10
          [] x = "painting" -> 8]

\* C2: for every validated submission the budget, timeline and project scores
\* are those of the specification's tables and the total is the sum of the
\* four component scores; scenario 1 scores 30/25/25/20 = 100 "hot" and
\* scenario 2 scores 6/14/12/8 = 40 "cold".
C2_RuleTables ==
    Scored =>
        LET lead == response.lead
            sc == response.score
        IN  /\ sc.budget_score = SpecBudgetTable[lead.budget_range]
            /\ sc.timeline_score = SpecTimelineTable[lead.timeline]
            /\ sc.project_score = SpecProjectTable[lead.project_type]
            /\ sc.total_score =
                  sc.budget_score + sc.timeline_score + sc.location_score
                  + sc.project_score
            /\ (lead = Scenario1 =>
                  /\ <<sc.budget_score, sc.timeline_score, sc.location_score,
                       sc.project_score>> = <<30, 25, 25, 20>>
                  /\ sc.total_score = 100
                  /\ sc.qualification = "hot")
            /\ (lead = Scenario2 =>
                  /\ <<sc.budget_score, sc.timeline_score, sc.location_score,
                       sc.project_score>> = <<6, 14, 12, 8>>
                  /\ sc.total_score = 40
                  /\ sc.qualification = "cold")

\* C2 witness: scenario 1 was submitted and scored 100
C2_Witness == Scored /\ response.lead = Scenario1 /\ response.score.total_score = 100

C2_Scenario2Reached == Scored /\ response.lead = Scenario2

\* C3: for every submission the validators accept, calculate_score returns a
\* total between 36 and 100.
C3_TotalRange ==
    (op = "score_lead" /\ LeadValid(request)) =>
        /\ response.status = 200
        /\ 36 <= response.score.total_score
        /\ response.score.total_score <= 100

\* every total that is returned is between 36 and 100
C3_ReturnedTotalsInRange ==
    Scored => (36 <= response.score.total_score /\ response.score.total_score <= 100)

\* the minimum 36 and the maximum 100 are attained
C3_Minimum36Reached == Scored /\ response.score.total_score = 36
C3_Maximum100Reached == Scored /\ response.score.total_score = 100

\* the seven premium prefixes, as a set
PremiumSet == {PREMIUM_POSTCODES[i] : i \in 1..Len(PREMIUM_POSTCODES)}

\* C4: the location score is 25 when the extracted prefix is one of the seven
\* premium prefixes, otherwise 20 when it starts with N, otherwise 18 when it
\* starts with W or SW, otherwise 12; no other prefix scores 25.  Stated for
\* postcodes written with their space, whose prefix is the outward code.
C4_LocationByPremiumList ==
    (Scored /\ HasSpace(response.lead.postcode)) =>
        LET prefix == LocationPrefix(response.lead.postcode)
        IN  response.score.location_score =
              IF prefix \in PremiumSet THEN 25
              ELSE IF StartsWith(prefix, <<"N">>) THEN 20
              ELSE IF StartsWith(prefix, <<"W">>) \/ StartsWith(prefix, <<"S", "W">>)
              THEN 18
              ELSE 12

\* C4, on the postcode the claim names: N20 is not premium and must not score 25
C4_N20NotPremium ==
    (Scored /\ response.lead.postcode = <<"N", "2", "0", " ", "1", "A", "A">>) =>
        response.score.location_score # 25

\* C5: a postcode scores the same with and without the space between its
\* outward and inward parts.
C5_SpaceIndependent ==
    (Scored /\ ~LocationRaises(RemoveSpaces(response.lead.postcode))) =>
        response.score.location_score =
            score_location(RemoveSpaces(response.lead.postcode))

\* C5's own example holds: NW3 1QE and NW31QE both give prefix NW3 and 25
C5_ExampleNW3 ==
    LET spaced == <<"N", "W", "3", " ", "1", "Q", "E">>
    IN  /\ LocationPrefix(spaced) = <<"N", "W", "3">>
        /\ LocationPrefix(RemoveSpaces(spaced)) = <<"N", "W", "3">>
        /\ score_location(spaced) = 25
        /\ score_location(RemoveSpaces(spaced)) = 25

\* C6: a categorical value absent from its rule table scores the default 10,
\* calculate_score still returns a score for it, and no submission that passed
\* validation makes calculate_score raise.
C6_NeverRejects ==
    /\ (op = "score_budget" /\ request \notin ValidBudgetRanges) => response = 10
    /\ (op = "score_timeline" /\ request \notin ValidTimelines) => response = 10
    /\ (op = "score_project_type" /\ request \notin ValidProjectTypes) => response = 10
    /\ op = "calculate_score" =>
          /\ ~response.raised
          /\ (request.budget_range \notin ValidBudgetRanges => response.budget_score = 10)
          /\ (request.timeline \notin ValidTimelines => response.timeline_score = 10)
          /\ (request.project_type \notin ValidProjectTypes =>
                response.project_score = 10)
    /\ op = "score_lead" => response.status # 500

\* the first half of C6 alone: unknown categorical values score the default
\* 10 and calculate_score returns a score for them
C6_DefaultsAreTen ==
    /\ (op = "score_budget" /\ request \notin ValidBudgetRanges) => response = 10
    /\ (op = "score_timeline" /\ request \notin ValidTimelines) => response = 10
    /\ (op = "score_project_type" /\ request \notin ValidProjectTypes) => response = 10
    /\ op = "calculate_score" =>
          /\ ~response.raised
          /\ (request.budget_range \notin ValidBudgetRanges => response.budget_score = 10)
          /\ (request.timeline \notin ValidTimelines => response.timeline_score = 10)
          /\ (request.project_type \notin ValidProjectTypes =>
                response.project_score = 10)

\* calculate_score was given three categorical values unknown to the tables
C6_UnknownValuesScored ==
    /\ op = "calculate_score"
    /\ request.budget_range \notin ValidBudgetRanges
    /\ request.timeline \notin ValidTimelines
    /\ request.project_type \notin ValidProjectTypes
    /\ ~response.raised
    /\ response.total_score = 30 + response.location_score

(***************************************************************************)
(* Properties of the quote pricing                                         *)
(***************************************************************************)
\* C7: every generated quote has total = subtotal after discount + VAT, and
\* subtotal after discount, VAT and total are whole pence (vat is held in
\* pence, subtotal and total in thousandths of a penny).
C7_TotalsWholePence ==
    Quoted =>
        /\ response.total = response.subtotal + response.vat * 1000
        /\ response.subtotal % 1000 = 0
        /\ response.total % 1000 = 0

\* the additive half of C7 alone does hold
C7_TotalIsSum == Quoted => response.total = response.subtotal + response.vat * 1000

\* the plain catalog of scenario 3: one base item at 100.00, quantity 1
Scenario3Sections ==
    <<[name |-> "Core Works",
       items |-> <<[description |-> "Units", quantity |-> 10, unit_price |-> 10000]>>]>>

\* C8: VAT is 20% of the subtotal after the volume discount, rounded half-up
\* to the penny, so it is less than a penny away from the exact 20%; one item
\* at 100.00, quantity 1, factor 1.0 and no discount gives 100.00 / 20.00 /
\* 120.00.  Compared in ten-thousandths of a penny.
C8_VatHalfUp ==
    Quoted =>
        LET exact == 2 * response.subtotal
            v == response.vat * 10000
        IN  /\ response.subtotal =
                  response.gross * 1000 - response.gross * response.discount_percentage
            /\ v <= exact + 5000
            /\ exact < v + 5000
            /\ (/\ response.sections = Scenario3Sections
                /\ response.location_factor = 100
                /\ response.discount_percentage = 0)
               => /\ response.subtotal = 10000 * 1000
                  /\ response.vat = 2000
                  /\ response.total = 12000 * 1000

\* C8 witness: scenario 3 was priced at 100.00 + 20.00 = 120.00
C8_Witness ==
    /\ Quoted
    /\ request.tier = "essential"
    /\ response.sections = Scenario3Sections
    /\ response.location_factor = 100
    /\ response.discount_percentage = 0
    /\ response.vat = 2000
    /\ response.total = 12000 * 1000

\* a discounted quote whose exact VAT is not a whole number of pence
C8_RoundedReached ==
    Quoted /\ response.discount_percentage > 0 /\ (2 * response.subtotal) % 10000 # 0

\* what the specification asks of the discount for `subtotal`: 0 below every
\* threshold, else the percentage of an entry with the highest threshold that
\* does not exceed it
HighestThresholdRule(table, subtotal, result) ==
    LET qualifying == {i \in DOMAIN table : table[i].threshold <= subtotal}
    IN  IF qualifying = {} THEN result = 0
        ELSE \E i \in qualifying :
                /\ \A j \in qualifying : table[j].threshold <= table[i].threshold
                /\ result = table[i].discount_percentage

\* C9: calculate_volume_discount returns the percentage of the entry with
\* the highest threshold not exceeding the subtotal (equality qualifies),
\* whatever the order of the table, and 0 below every threshold.
C9_HighestThreshold ==
    /\ op = "calculate_volume_discount" =>
          HighestThresholdRule(pricing.volume_discounts, request, response)
    /\ Quoted =>
          HighestThresholdRule(pricing.volume_discounts, response.gross,
                               response.discount_percentage)

\* C9 witness: a table listed with its higher threshold first, asked about a
\* subtotal equal to that threshold, gave that threshold's percentage
C9_Witness ==
    /\ op = "calculate_volume_discount"
    /\ Len(pricing.volume_discounts) = 2
    /\ pricing.volume_discounts[1].threshold > pricing.volume_discounts[2].threshold
    /\ request = pricing.volume_discounts[1].threshold
    /\ response = pricing.volume_discounts[1].discount_percentage
    /\ response # pricing.volume_discounts[2].discount_percentage

\* the discount just returned, against the discount of every other subtotal
MonotoneAroundCall ==
    \A s \in Subtotals :
        /\ request <= s => response <= calculate_volume_discount(s)
        /\ s <= request => calculate_volume_discount(s) <= response

\* C10 as stated: for any discount table, a larger subtotal never gets a
\* smaller discount percentage.
C10_MonotoneAnyTable == op = "calculate_volume_discount" => MonotoneAroundCall

\* percentages are not negative and do not fall as the threshold rises
TableMonotone(table) ==
    /\ \A i \in DOMAIN table : table[i].discount_percentage >= 0
    /\ \A i, j \in DOMAIN table :
          table[i].threshold < table[j].threshold =>
              table[i].discount_percentage <= table[j].discount_percentage

\* C10 amended: for a discount table whose percentages are non-negative and
\* non-decreasing in the threshold, a larger subtotal never gets a smaller
\* discount percentage.
C10_MonotoneOnMonotoneTable ==
    (op = "calculate_volume_discount" /\ TableMonotone(pricing.volume_discounts)) =>
        MonotoneAroundCall

\* C10 witness: a monotone table with two thresholds, listed out of order,
\* gave the larger percentage for a subtotal above the higher threshold
C10_Witness ==
    /\ op = "calculate_volume_discount"
    /\ TableMonotone(pricing.volume_discounts)
    /\ Len(pricing.volume_discounts) = 2
    /\ pricing.volume_discounts[1].threshold > pricing.volume_discounts[2].threshold
    /\ request > pricing.volume_discounts[1].threshold
    /\ response = pricing.volume_discounts[1].discount_percentage
    /\ response > pricing.volume_discounts[2].discount_percentage

\* the upgrade sections of a priced quote
UpgradeSections(quote) ==
    {i \in DOMAIN quote.sections :
        quote.sections[i].name = "Premium Upgrades & Enhancements"}

\* C11: an upgrades section is added only when the tier is not essential and
\* the request asks for upgrades (include_optional_items); otherwise the
\* quote has no upgrade items and its subtotal before discount is that of
\* the base items alone; an added upgrades section is non-empty and follows
\* the base section.
C11_UpgradesOnlyWhenRequested ==
    Quoted =>
        /\ (request.tier = "essential" \/ ~request.include_optional_items) =>
              /\ UpgradeSections(response) = {}
              /\ response.gross =
                    SumTotals(get_base_items(request.project_type, request.tier,
                                             response.location_factor))
        /\ \A i \in UpgradeSections(response) :
              /\ response.sections[i].items # <<>>
              /\ i = Len(response.sections)
              /\ \A j \in 1..(i - 1) : response.sections[j].name = "Core Works"

\* what does hold of the upgrades section: none for the essential tier, and
\* one that is added is non-empty and last
C11_EssentialHasNoUpgrades ==
    Quoted =>
        /\ request.tier = "essential" => UpgradeSections(response) = {}
        /\ \A i \in UpgradeSections(response) :
              /\ response.sections[i].items # <<>>
              /\ i = Len(response.sections)

\* a premium quote that was asked not to include upgrades and has them
C11_UnrequestedUpgradesReached ==
    /\ Quoted
    /\ request.tier = "premium"
    /\ ~request.include_optional_items
    /\ UpgradeSections(response) # {}

\* `rounded` is n/d rounded half-up to a whole number (n, d not negative)
IsHalfUp(rounded, n, d) ==
    /\ 2 * d * rounded <= 2 * n + d
    /\ 2 * n + d < 2 * d * rounded + 2 * d

\* the catalog price the specification gives an item for a tier: its
\* price_<tier> when present, otherwise price_from, otherwise price
CatalogPrice(item, tier) ==
    IF tier = "essential" /\ "price_essential" \in DOMAIN item THEN item.price_essential
    ELSE IF tier = "premium" /\ "price_premium" \in DOMAIN item THEN item.price_premium
    ELSE IF tier = "luxury" /\ "price_luxury" \in DOMAIN item THEN item.price_luxury
    ELSE IF "price_from" \in DOMAIN item THEN item.price_from
    ELSE item.price

\* the positions of the catalog items offered for a tier
OfferedFor(catalog, tier) ==
    {i \in DOMAIN catalog :
        IF "tiers" \in DOMAIN catalog[i] THEN tier \in catalog[i].tiers ELSE TRUE}

\* C12: get_base_items returns, in catalog order, exactly the base items of
\* the project type whose tier list (all tiers when absent) contains the
\* tier; each unit price is price_<tier>, else price_from, else price, times
\* the location factor, rounded half-up to the penny, and each line total is
\* quantity * unit_price rounded half-up to the penny.
C12_BaseItems ==
    op = "get_base_items" =>
        LET catalog == Category(request.project_type).base_items
            offered == OfferedFor(catalog, request.tier)
        IN  /\ Len(response) = Cardinality(offered)
            /\ \A i \in offered :
                  LET k == Cardinality({j \in offered : j <= i})
                  IN  /\ response[k].description = catalog[i].name
                      /\ IsHalfUp(response[k].unit_price,
                                  CatalogPrice(catalog[i], request.tier)
                                      * request.location_factor, 100)
                      /\ IsHalfUp(LineTotal(response[k]),
                                  response[k].quantity * response[k].unit_price, 10)

\* C12 witness: for the essential tier at factor 1.15 the premium-only
\* Worktop is left out and Fitting (price_from 100.01, quantity 1.5) is
\* priced at 115.01 with line total 172.52 (115.0115 and 172.515 rounded)
C12_Witness ==
    /\ op = "get_base_items"
    /\ request.tier = "essential"
    /\ request.location_factor = 115
    /\ Len(Category(request.project_type).base_items) = 2
    /\ Category(request.project_type).base_items[1].name = "Worktop"
    /\ response = <<[description |-> "Fitting", quantity |-> 15, unit_price |-> 11501]>>
    /\ LineTotal(response[1]) = 17252

\* a tier price that differs from the item's generic price was used
C12_TierPriceReached ==
    /\ op = "get_base_items"
    /\ request.tier = "premium"
    /\ request.location_factor = 115
    /\ response # <<>>
    /\ response[1] = [description |-> "Units", quantity |-> 10, unit_price |-> 17308]

\* the outward code of a postcode: what precedes its three-character inward
\* code, spaces and case apart
OutwardCode(postcode) ==
    LET pc == RemoveSpaces(Upper(postcode))
    IN  SubSeq(pc, 1, Len(pc) - 3)

\* an outward code as a key of the location-factor table
AreaKey(code) ==
    CASE code = <<"N", "W", "3">> -> "NW3"
      [] code = <<"N", "W", "6">> -> "NW6"
      [] code = <<"N", "W", "1", "1">> -> "NW11"
      [] code = <<"N", "W", "1">> -> "NW1"
      [] code = <<"S", "E", "1">> -> "SE1"
      [] OTHER -> "?"

\* every unit price of the quote's base section is the item's catalog price
AtCatalogPrices(quote, project_type, tier) ==
    LET catalog == Category(project_type).base_items
        offered == OfferedFor(catalog, tier)
    IN  \A s \in DOMAIN quote.sections :
            quote.sections[s].name = "Core Works" =>
                \A i \in offered :
                    quote.sections[s].items[Cardinality({j \in offered : j <= i})]
                        .unit_price = CatalogPrice(catalog[i], tier)

\* C13: the location multiplier is 1.0 for every postcode whose prefix has no
\* entry in the location-factor table, and every unit price of such a quote
\* equals its catalog price.
C13_DefaultFactor ==
    (Quoted /\ AreaKey(OutwardCode(request.postcode))
                   \notin DOMAIN pricing.location_factors) =>
        /\ response.location_factor = 100
        /\ AtCatalogPrices(response, request.project_type, request.tier)

\* what get_location_factor does guarantee: 1.0, and catalog prices, when
\* the area location_area derived (or None) has no entry in the table
C13_DefaultForDerivedArea ==
    (Quoted /\ location_area(CustomerPostcode(request.postcode))
                   \notin DOMAIN pricing.location_factors) =>
        /\ response.location_factor = 100
        /\ AtCatalogPrices(response, request.project_type, request.tier)

\* an SE1 postcode priced at catalog prices under a table with entries
C13_DefaultReached ==
    /\ Quoted
    /\ AreaKey(OutwardCode(request.postcode)) = "SE1"
    /\ pricing.location_factors # <<>>
    /\ response.location_factor = 100
    /\ response.sections # <<>>

C14_NoPercentage ==
    (Quoted /\ request.project_type \notin DOMAIN pricing.categories
     /\ \A i \in DOMAIN pricing.volume_discounts :
            pricing.volume_discounts[i].threshold > 0) =>
        response.discount_percentage = 0

Unloadable(pricing_file) ==
    \/ pricing_file.kind \in {"missing", "malformed"}
    \/ pricing_file.top # "mapping"
    \/ pricing_file.categories # "mapping"

\* C15: constructing the pricing engine fails with ConfigurationError when
\* the pricing file is missing, unparsable or structurally invalid, at
\* startup, and no request is priced without a loaded rule table.
C15_ConfigurationError ==
    /\ op = "failed" => response = Raised("ConfigurationError")
    /\ op \notin {"start", "failed"} => "invalid" \notin DOMAIN pricing
    /\ (op = "generate_quote" /\ "generated" \in DOMAIN response) =>
          pricing \in PricingMatrices

\* what the constructor does guarantee: a missing or unparsable file, or one
\* whose top level is not an object, stops the import with the exception of
\* open(), json.load() or .get(), and a quote is priced only from a matrix
C15_ImportFailsOrTableLoaded ==
    /\ op = "failed" =>
          /\ Unloadable(request)
          /\ response.error \in {"FileNotFoundError", "JSONDecodeError", "AttributeError"}
    /\ (op = "generate_quote" /\ "generated" \in DOMAIN response) =>
          pricing \in PricingMatrices

\* a file whose "categories" is a list was loaded and a request for it failed
C15_InvalidTableServed ==
    /\ op = "generate_quote"
    /\ "invalid" \in DOMAIN pricing
    /\ response = [status |-> 500, detail |-> "AttributeError"]

\* C17: whenever QuoteService.generate completes for a valid request, POST
\* /generate answers 200 with the quote_number and total of the generated
\* quote, never an error response.
C17_SuccessIs200 ==
    (op = "generate_quote" /\ "generated" \in DOMAIN response) =>
        /\ response.status = 200
        /\ response.quote_number = response.generated.quote_number
        /\ response.total = response.generated.total

\* a quote was generated and the endpoint answered 500
C17_GeneratedBut500 ==
    /\ op = "generate_quote"
    /\ "generated" \in DOMAIN response
    /\ response.generated.total > 0
    /\ response.status = 500

\* C18: ProjectDetails rejects a project_type outside the supported list, a
\* tier outside {essential, premium, luxury} and a negative estimated_sqm,
\* so no such request reaches the pricing engine.
C18_OutOfDomainRejected ==
    (/\ op = "generate_quote"
     /\ \/ request.project_type \notin SupportedProjectTypes
        \/ request.tier \notin AllTiers
        \/ request.estimated_sqm < 0) =>
        /\ response.status = 422
        /\ "generated" \notin DOMAIN response

\* a request with an unsupported project type, an unknown tier and a
\* negative area was priced
C18_OutOfDomainPriced ==
    /\ op = "generate_quote"
    /\ request.project_type = "invalid_type"
    /\ request.tier = "super_luxury"
    /\ request.estimated_sqm < 0
    /\ "generated" \in DOMAIN response

(***************************************************************************)
(* Properties of concurrent calls                                          *)
(***************************************************************************)
\* what a call returns when it runs alone
AloneResult(call) ==
    CASE call.fn = "calculate_score" -> calculate_score(call.lead)
      [] call.fn = "get_base_items" ->
            get_base_items(call.project_type, call.tier, call.location_factor)
      [] call.fn = "get_premium_upgrades" ->
            get_premium_upgrades(call.project_type, call.tier, call.location_factor)
      [] call.fn = "calculate_volume_discount" ->
            calculate_volume_discount(call.subtotal)

\* every call that has returned returned what it returns alone
ResultsAsAlone ==
    \A c \in Callers : op[c] = "returned" => response[c] = AloneResult(request[c])

\* no step of any call changes the engine's tables or a running call's input
TablesAndInputsKept ==
    /\ pricing' = pricing
    /\ \A c \in Callers : op[c] = "running" => request'[c] = request[c]

\* C16: scoring and pricing are pure over an immutable rule table: no step
\* of calculate_score, get_base_items, get_premium_upgrades or
\* calculate_volume_discount modifies the engine's tables or the call's
\* input, and under every interleaving each call returns what it returns
\* when run alone.
C16_PureUnderInterleaving == [][TablesAndInputsKept]_vars /\ []ResultsAsAlone

\* C16 witness: two callers are both inside their loops, one pricing base
\* items and one selecting a volume discount, each after its first iteration
C16_Witness ==
    /\ op[1] = "running"
    /\ op[2] = "running"
    /\ request[1].fn = "get_base_items"
    /\ request[2].fn = "calculate_volume_discount"
    /\ response[1].i = 2
    /\ response[2].i = 2

\* a call returned a non-empty result while the other caller was mid-loop
C16_ReturnedDuringOther ==
    /\ op[1] = "returned"
    /\ request[1].fn = "get_base_items"
    /\ response[1] # <<>>
    /\ op[2] = "running"
    /\ response[2].i = 2

(***************************************************************************)
(* Properties of lead submission and retrieval                             *)
(***************************************************************************)
\* C19: after a submission succeeded and returned a lead id, a later
\* retrieval of that id returns 200 with the same id, and retrieval of an id
\* that was never issued returns 404.
C19_IssuedLeadRetrievable ==
    op = "get_lead" =>
        IF request.lead_id \in intake.issued
        THEN response.status = 200 /\ response.id = request.lead_id
        ELSE response.status = 404

\* the half that holds: an id never issued is answered 404
C19_NeverIssued404 ==
    (op = "get_lead" /\ request.lead_id \notin intake.issued) => response.status = 404

\* a lead id that a successful submission returned was asked for and not found
C19_IssuedNotFound ==
    /\ op = "get_lead"
    /\ request.lead_id \in intake.issued
    /\ response.status = 404

\* a submission succeeded and its two background tasks are queued
C19_SubmissionSucceeded ==
    /\ op = "submit_lead"
    /\ response.status = 200
    /\ response.lead_id \in intake.issued
    /\ Len(intake.background) >= 2

(***************************************************************************)
(* Properties of the location area                                         *)
(***************************************************************************)
\* the districts location_area names
AreaDistricts == {"NW3", "NW6", "NW11"}

\* C20: location_area is NW3, NW6 or NW11 exactly for the postcodes whose
\* outward code is that district and None for every other postcode, so a
\* quote for a postcode outside the three districts (NW1 1AA) is priced
\* without a location factor.
C20_AreaIsOutwardCode ==
    Quoted =>
        LET outward == AreaKey(OutwardCode(request.postcode))
            area == location_area(CustomerPostcode(request.postcode))
        IN  /\ area = IF outward \in AreaDistricts THEN outward ELSE "None"
            /\ outward \notin AreaDistricts => response.location_factor = 100

\* the half that holds: a postcode of one of the three districts gets that
\* district, and its factor
C20_DistrictsRecognised ==
    Quoted =>
        LET outward == AreaKey(OutwardCode(request.postcode))
        IN  outward \in AreaDistricts =>
                /\ location_area(CustomerPostcode(request.postcode)) = outward
                /\ response.location_factor = get_location_factor(outward)

\* an NW1 postcode was priced with the NW11 factor
C20_NW1GetsNW11Factor ==
    /\ Quoted
    /\ request.postcode = <<"N", "W", "1", " ", "1", "A", "A">>
    /\ location_area(CustomerPostcode(request.postcode)) = "NW11"
    /\ response.location_factor = 105

(***************************************************************************)
(* Properties of the premium upgrades                                      *)
(***************************************************************************)
\* the positions of the upgrades offered for a tier (default tiers: premium
\* and luxury)
UpgradesOfferedFor(catalog, tier) ==
    {i \in DOMAIN catalog :
        tier \in (IF "tiers" \in DOMAIN catalog[i] THEN catalog[i].tiers
                  ELSE {"premium", "luxury"})}

\* C21: upgrades are priced by the rule of the base items: the unit price is
\* price_<tier> when present, else price_from / price, times the location
\* factor rounded half-up, and the catalog quantity is used, so that
\* get_premium_upgrades gives for a catalog entry the line item
\* get_base_items gives for it.
C21_UpgradesPricedLikeBase ==
    (op = "get_premium_upgrades" /\ request.tier # "essential") =>
        LET catalog == Category(request.project_type).premium_upgrades
            offered == UpgradesOfferedFor(catalog, request.tier)
        IN  /\ Len(response) = Cardinality(offered)
            /\ \A i \in offered :
                  LET line == response[Cardinality({j \in offered : j <= i})]
                  IN  /\ IsHalfUp(line.unit_price,
                                  CatalogPrice(catalog[i], request.tier)
                                      * request.location_factor, 100)
                      /\ line.quantity =
                            (IF "quantity" \in DOMAIN catalog[i]
                             THEN catalog[i].quantity ELSE 10)
                      /\ line = BaseLineItem(catalog[i], request.tier,
                                             request.location_factor)

\* what does hold: the upgrades offered for the tier, in catalog order, each
\* at price_from / price times the factor rounded half-up, quantity 1
C21_UpgradesAtGenericPrice ==
    op = "get_premium_upgrades" =>
        LET catalog == Category(request.project_type).premium_upgrades
            offered == IF request.tier = "essential" THEN {}
                       ELSE UpgradesOfferedFor(catalog, request.tier)
        IN  /\ Len(response) = Cardinality(offered)
            /\ \A i \in offered :
                  LET line == response[Cardinality({j \in offered : j <= i})]
                  IN  /\ IsHalfUp(line.unit_price,
                                  GenericPrice(catalog[i]) * request.location_factor,
                                  100)
                      /\ line.quantity = 10

\* the luxury underfloor heating (price_luxury 40.00, quantity 2) came out at
\* price_from 25.00 and quantity 1
C21_TierPriceIgnored ==
    /\ op = "get_premium_upgrades"
    /\ request.tier = "luxury"
    /\ request.location_factor = 100
    /\ response = <<[description |-> "Underfloor heating", quantity |-> 10,
                     unit_price |-> 2500]>>

(***************************************************************************)
(* Properties of the background tasks                                      *)
(***************************************************************************)
\* the tasks that ran, by name and lead
RanFor(task, lead_id) ==
    {i \in DOMAIN intake.ran :
        intake.ran[i].task = task /\ intake.ran[i].lead_id = lead_id}

QueuedFor(task, lead_id) ==
    {i \in DOMAIN intake.background :
        intake.background[i].task = task /\ intake.background[i].lead_id = lead_id}

\* every task that ran returned; the HubSpot task of a lead whose n8n task
\* ran is queued or has run, after the n8n task; without an API key no
\* HubSpot request was made
BackgroundTasksContained ==
    /\ \A i \in DOMAIN intake.ran : intake.ran[i].result = "returned"
    /\ \A lead_id \in intake.issued :
          /\ RanFor("send_to_n8n", lead_id) # {} =>
                RanFor("send_to_hubspot", lead_id) \cup
                    QueuedFor("send_to_hubspot", lead_id) # {}
          /\ \A i \in RanFor("send_to_hubspot", lead_id) :
                \E j \in RanFor("send_to_n8n", lead_id) : j < i
    /\ intake.hubspot_api_key = "" =>
          \A i \in DOMAIN intake.ran :
              intake.ran[i].task = "send_to_hubspot" => ~intake.ran[i].requested

\* a step that runs a background task leaves the response, and the request
\* being served, as they were
ResponseKeptByTasks ==
    intake'.ran # intake.ran => UNCHANGED <<op, request, response>>

\* C22: background delivery never affects the lead response or the other
\* task: send_to_n8n and send_to_hubspot return whatever the HTTP outcome,
\* the response of submit_lead is unchanged, the HubSpot task runs after a
\* failed n8n task, and no HubSpot request is made without an API key.
C22_BackgroundDeliveryContained ==
    []BackgroundTasksContained /\ [][ResponseKeptByTasks]_vars

\* C22 witness: while the success response of a submission is still being
\* returned, its n8n task failed with an exception and its HubSpot task then
\* ran without making a request, no API key being set
C22_Witness ==
    /\ op = "submit_lead"
    /\ response.status = 200
    /\ intake.hubspot_api_key = ""
    /\ Len(intake.ran) = 2
    /\ intake.ran[1].task = "send_to_n8n"
    /\ intake.ran[1].lead_id = response.lead_id
    /\ intake.ran[1].outcome = "ConnectError"
    /\ intake.ran[2].task = "send_to_hubspot"
    /\ intake.ran[2].lead_id = response.lead_id
    /\ ~intake.ran[2].requested

\* with an API key, the HubSpot task ran after an n8n task answered 500
C22_HubspotAfterFailedN8n ==
    /\ intake.hubspot_api_key # ""
    /\ Len(intake.ran) >= 2
    /\ intake.ran[1].task = "send_to_n8n"
    /\ intake.ran[1].outcome = "500"
    /\ intake.ran[2].task = "send_to_hubspot"
    /\ intake.ran[2].requested
    /\ intake.ran[2].log = "hubspot_contact_created"


(***************************************************************************)
(* Properties of the rate limiter                                          *)
(***************************************************************************)
Window == window_seconds * TicksPerSecond

\* how many entries of a history lie in the window (t - window, t]
CountIn(history, t) ==
    Cardinality({i \in 1..Len(history) : history[i] > t - Window /\ history[i] <= t})

Rejected == op = "dispatch" /\ response.status_code = 429

Admitted == op = "dispatch" /\ response.status_code = 200 /\ response.counted

\* C23: for every key and every instant t, at most max_requests calls that
\* returned False for that key have their time in (t - window_seconds, t], and
\* a call returns True only when max_requests admitted calls of its key lie
\* in the current window
C23_AtMostMaxPerWindow ==
    /\ \A key \in RateKeys : \A t \in 0..(MaxTime + Window) :
            CountIn(limiter.admitted[key], t) <= max_requests
    /\ Rejected =>
            CountIn(limiter.admitted[response.rate_key], limiter.now) >= max_requests

\* a call was rejected for a key that has been admitted more than
\* max_requests times in all: the window has moved on between them
C23_Witness ==
    /\ Rejected
    /\ Len(limiter.admitted[response.rate_key]) > max_requests

\* C24: a call of is_rate_limited that returns True leaves every stored
\* history as it was, a call that returns False changes the history of its
\* own key only, and get_remaining and get_reset_time change no history
RejectedCallKeepsHistories ==
    (op = "idle" /\ Rejected') => limiter'.requests = limiter.requests

AdmittedCallKeepsOtherKeys ==
    (op = "idle" /\ Admitted') =>
        /\ limiter'.requests[response'.rate_key] # limiter.requests[response'.rate_key]
        /\ \A key \in RateKeys \ {response'.rate_key} :
                limiter'.requests[key] = limiter.requests[key]

ReadersKeepHistories ==
    op' \in {"get_remaining", "get_reset_time"} => limiter'.requests = limiter.requests

C24_RejectedNotRecorded ==
    [][RejectedCallKeepsHistories /\ AdmittedCallKeepsOtherKeys
       /\ ReadersKeepHistories]_vars

\* a call was rejected while another key has a history of its own
C24_Witness ==
    /\ Rejected
    /\ \E key \in RateKeys \ {response.rate_key} : limiter.requests[key] # <<>>

\* C25: when a request is rejected at time t and get_reset_time returns r, the
\* next request for that key, made at t + r with none in between, is admitted
C25_RetryAfterSufficient ==
    Rejected =>
        ~is_rate_limited(limiter.requests, response.rate_key, max_requests,
                         window_seconds,
                         limiter.now + response.retry_after * TicksPerSecond).limited

\* what does hold: the request is admitted one second after the advertised
\* delay
C25_AdmittedOneSecondLater ==
    Rejected =>
        ~is_rate_limited(limiter.requests, response.rate_key, max_requests,
                         window_seconds,
                         limiter.now + (response.retry_after + 1) * TicksPerSecond).limited

\* a rejection whose oldest request leaves the window a fraction of a second
\* after the advertised delay
C25_FractionDropped ==
    /\ Rejected
    /\ (Oldest(limiter.requests[response.rate_key]) + Window - limiter.now)
            % TicksPerSecond # 0

\* C26: for every client address and every instant t, at most max_requests
\* requests of that address to paths that are not excluded are passed on
\* with their time in (t - window_seconds, t], whatever headers it sends
C26_AtMostMaxPerClient ==
    \A client \in ClientHosts : \A t \in 0..(MaxTime + Window) :
        CountIn(limiter.passed[client], t) <= max_requests

\* requests to excluded paths are passed on and change nothing the limiter
\* keeps
C26_ExcludedPathsPass ==
    (op = "dispatch" /\ request.path \in exclude_paths) =>
        response.passed_on /\ ~response.counted

\* what does hold: at most max_requests are passed on per window under each
\* key a client can choose
C26_AtMostMaxPerChosenKey ==
    \A client \in ClientHosts : \A t \in 0..(MaxTime + Window) :
        CountIn(limiter.passed[client], t) <= max_requests * Cardinality(RateKeys)


(***************************************************************************)
(* Properties of the invoice generator                                     *)
(***************************************************************************)
\* every worker is between two requests
Quiescent == \A w \in Workers : op[w] = "idle"

\* the counters get_next returned are 1001, 1002, ... in the order of return
Sequential(numbers) == \A i \in 1..Len(numbers) : numbers[i] = 1000 + i

\* C27: on a fresh counter file the first call of get_next returns 1001, each
\* later call returns one more than the call before it, and no two calls
\* return the same number, also when the calls of different workers
\* interleave
C27_SequentialUnique ==
    /\ Sequential(invoices.numbers)
    /\ \A i, j \in 1..Len(invoices.numbers) :
            i # j => invoices.numbers[i] # invoices.numbers[j]

\* what does hold: the numbers are sequential and unique as long as no call
\* of get_next read the file while another call was between its read and
\* its write
C27_SequentialWithoutOverlap ==
    ~invoices.overlapped => C27_SequentialUnique

\* two calls that did not overlap returned 1001 and 1002
C27_TwoCallsInTurn ==
    /\ ~invoices.overlapped
    /\ Len(invoices.numbers) >= 2

\* C28: the invoice numbers sent in successful responses are 1001, 1002, ...
\* without a gap, a failed request having left the counter as it was
C28_GaplessAnswers ==
    Quiescent =>
        invoices.answered = {1000 + i : i \in 1..Cardinality(invoices.answered)}

\* what does hold: without a failed request the answered numbers have no gap
C28_GaplessWithoutFailure ==
    (Quiescent /\ invoices.failures = 0) =>
        invoices.answered = {1000 + i : i \in 1..Cardinality(invoices.answered)}

\* a failed request has used up a number: the counter file holds more than
\* the number of successful responses accounts for
C28_FailureUsesNumber ==
    /\ Quiescent
    /\ invoices.failures > 0
    /\ invoices.counter_file.counter > 1000 + Cardinality(invoices.answered)

\* a successful response to a request that left subtotal, vat_total and
\* total at 0
AnsweredDefaults(w) ==
    /\ op[w] = "returned"
    /\ response[w].status_code = 200
    /\ request[w].subtotal = 0 /\ request[w].vat_total = 0 /\ request[w].total = 0

\* sum(quantity * unit_price) + sum(quantity * unit_price * vat_rate / 100)
\* - amount_paid
StatedTotalDue(req) ==
    SumOver(req.line_items, "net") + SumOver(req.line_items, "vat") - req.amount_paid

\* C29: for a request that leaves subtotal, vat_total and total at 0,
\* total_due is the sum of the net amounts plus the sum of the VAT amounts
\* minus amount_paid, and the AMOUNT DUE of the PDF is the same value
C29_TotalDueAndPdfAgree ==
    \A w \in Workers : AnsweredDefaults(w) =>
        /\ response[w].total_due = StatedTotalDue(request[w])
        /\ response[w].pdf_amount_due * PerPenny = response[w].total_due

\* what does hold: total_due is as stated, and the PDF prints it rounded to
\* the nearest penny, ties to even
C29_PdfPrintsRounded ==
    \A w \in Workers : AnsweredDefaults(w) =>
        /\ response[w].total_due = StatedTotalDue(request[w])
        /\ response[w].pdf_amount_due = RoundHalfEven(response[w].total_due, PerPenny)

\* an answered request whose total is not whole pence
C29_FractionOfPenny ==
    \E w \in Workers :
        /\ AnsweredDefaults(w)
        /\ response[w].total_due % PerPenny # 0


(***************************************************************************)
(* Properties of the contract generator                                    *)
(***************************************************************************)
RECURSIVE SumField(_, _)
SumField(milestones, field) ==
    IF milestones = <<>> THEN 0
    ELSE (IF field = "percentage" THEN Head(milestones).percentage
          ELSE Head(milestones).amount)
         + SumField(Tail(milestones), field)

\* the sections built for a request that supplies no payment_milestones
DefaultSchedule == op = "build_contract" /\ request.payment_milestones = <<>>

\* C30: for a request without payment_milestones the percentages of the
\* schedule sum to 100 and its amounts sum to the Total Contract Sum
\* (including VAT) of the financial section, whatever contract_value,
\* vat_rate, vat_amount and total_including_vat are
C30_ScheduleSumsToContractSum ==
    DefaultSchedule =>
        /\ SumField(response.milestones, "percentage") = 100
        /\ SumField(response.milestones, "amount") = response.total_contract_sum

\* what does hold: the percentages sum to 100 and the amounts to the total
\* the payment section uses, which is the contract sum when
\* total_including_vat is given and positive, or when it and vat_amount are
\* 0 and the VAT rate is 20%
C30_ScheduleSumsToPaymentTotal ==
    DefaultSchedule =>
        /\ SumField(response.milestones, "percentage") = 100
        /\ SumField(response.milestones, "amount") = PaymentTotal(request)
        /\ (\/ request.total_including_vat > 0
            \/ /\ request.total_including_vat = 0
               /\ request.vat_amount = 0
               /\ request.vat_rate = 20)
                => PaymentTotal(request) = response.total_contract_sum

\* a default schedule for a contract at 5% VAT with nothing else supplied
C30_OtherVatRate ==
    /\ DefaultSchedule
    /\ request.vat_rate = 5
    /\ request.vat_amount = 0
    /\ request.total_including_vat = 0
    /\ SumField(response.milestones, "amount") # response.total_contract_sum

====
